---- MODULE Spec2Model ----
(***************************************************************************)
(* A model of qtip's prediction merger (predmerge.cpp), SAM scanner        *)
(* (qsim_parse.cpp, sam_pass1) and SAM rewriter (qtip_rewrite.cpp).        *)
(*                                                                         *)
(* Files are sequences: a prediction file is a sequence of (line, mapq)    *)
(* records, a SAM file a sequence of lines, a line a sequence of           *)
(* one-character strings ending in "\n".  MAPQ predictions are counted in  *)
(* tenths (26 is 2.6).                                                     *)
(***************************************************************************)
EXTENDS Integers, Sequences, FiniteSets, TLC

VARIABLES
    in_fns,   \* merger: the prediction files handed to the constructor
    mg,       \* merger: the PredictionMerger object and what next() returned
    sam,      \* the SAM file read by the scanner and by the rewriter
    preds,    \* rewriter: the prediction files named on the command line
    opts,     \* rewriter: keep_ztz, write_orig_mapq, write_precise_mapq
    scan,     \* scanner: the locals of sam_pass1 and the rows written
    rw,       \* rewriter: the locals of main and the lines written
    fasta,    \* FASTA parser: the files, chunksz and olap given to the constructor
    fa,       \* FASTA parser: the FastaChunkwiseParser object and the windows returned
    simread,  \* simulator: a SimulatedRead, its inputs and what it wrote
    aln,      \* scanner: an Alignment given to set_correctness, and the result
    lib       \* a container or parsing helper on its own: its object, inputs and result

vars == <<in_fns, mg, sam, preds, opts, scan, rw, fasta, fa, simread, aln, lib>>

\* The variables of the FASTA parser, the simulator, set_correctness and the
\* helpers
toolVars == <<fasta, fa, simread, aln, lib>>

(***************************************************************************)
(* Bounds of the model.                                                    *)
(***************************************************************************)
MaxFiles == 3       \* prediction files given to one merger
MaxLine == 3        \* largest line ordinal in a merger input file
MaxCalls == 6       \* calls of PredictionMerger::next() in one run
WordBits == 8       \* width the model gives to uint64_t
MaxSamLines == 3    \* lines of a SAM file

UINT64_MAX == 2^WordBits - 1

Min(a, b) == IF a < b THEN a ELSE b

(***************************************************************************)
(* Prediction (predmerge.h)                                                *)
(***************************************************************************)
Prediction(line, mapq) == [line |-> line, mapq |-> mapq]

\* Prediction::reset(), and the default constructor that calls it
PredictionReset == Prediction(UINT64_MAX, 0)

PredictionValid(p) == p.line # UINT64_MAX

\* The mapq of the input record with line l, in tenths; s picks one of two
\* assignments
MapqAt(s, l) == IF (l + s) % 2 = 0 THEN 4 ELSE 26

(***************************************************************************)
(* PredictionMerger (predmerge.cpp).  m is the object: pos[i] counts the   *)
(* records read from file i, eof[i] is feof(in_[i]), failed is set by a    *)
(* failing assert.  Files are indexed from 1; next_ keeps the C value      *)
(* (-1, or the 0-based index of a file).                                   *)
(***************************************************************************)

\* A read that does not move the file position (a variant of FreadRecord)
FreadRecordStuck(m, fns, i) ==
    IF m.pos[i] >= Len(fns[i])
    THEN [m EXCEPT !.eof[i] = TRUE, !.done_[i] = TRUE,
                   !.preds_[i] = PredictionReset, !.ok = FALSE]
    ELSE LET rec == fns[i][m.pos[i] + 1]
         IN [m EXCEPT !.preds_[i] = Prediction(rec.line % 2^WordBits, rec.mapq),
                      !.failed = m.failed \/ rec.mapq < 0 \/ rec.mapq > 1000,
                      !.ok = TRUE]

\* The bytes of a record that the file holds: 16, or fewer for a record the
\* file ends in the middle of
RecBytes(rec) == IF "bytes" \in DOMAIN rec THEN rec.bytes ELSE 16

\* The two fread calls of advanceFile and what follows them.  fread returns
\* 0 items and sets the end-of-file indicator when fewer than 8 bytes are
\* left; thrown is set by "throw 1"
FreadRecord(m, fns, i) ==
    IF m.pos[i] >= Len(fns[i])
    THEN [m EXCEPT !.eof[i] = TRUE, !.done_[i] = TRUE,
                   !.preds_[i] = PredictionReset, !.ok = FALSE]
    ELSE LET rec == fns[i][m.pos[i] + 1]
         IN IF RecBytes(rec) < 8
            THEN [m EXCEPT !.pos[i] = m.pos[i] + 1,
                           !.eof[i] = TRUE, !.done_[i] = TRUE,
                           !.preds_[i] = PredictionReset, !.ok = FALSE]
            ELSE IF RecBytes(rec) < 16
            THEN [m EXCEPT !.pos[i] = m.pos[i] + 1,
                           !.eof[i] = TRUE,
                           !.thrown = TRUE, !.ok = FALSE]
            ELSE [m EXCEPT !.pos[i] = m.pos[i] + 1,
                      !.preds_[i] = Prediction(rec.line % 2^WordBits, rec.mapq),
                      !.failed = m.failed \/ rec.mapq < 0 \/ rec.mapq > 1000,
                      !.ok = TRUE]

\* advanceFile(i): m.ok is the value returned
advanceFile(m, fns, i) ==
    IF m.done_[i] \/ m.eof[i]
    THEN [m EXCEPT !.failed = TRUE, !.ok = FALSE]
    ELSE FreadRecord(m, fns, i)

\* The constructor: next_ = -1, then advanceFile(i) for every file in turn
RECURSIVE ConstructFrom(_, _, _)
ConstructFrom(m, fns, i) ==
    IF i > Len(fns) \/ m.thrown THEN m
    ELSE ConstructFrom(advanceFile(m, fns, i), fns, i + 1)

PredictionMerger(fns) ==
    ConstructFrom(
        [pos    |-> [i \in 1..Len(fns) |-> 0],
         eof    |-> [i \in 1..Len(fns) |-> FALSE],
         preds_ |-> [i \in 1..Len(fns) |-> PredictionReset],
         done_  |-> [i \in 1..Len(fns) |-> FALSE],
         next_  |-> -1,
         ok     |-> TRUE,
         failed |-> FALSE,
         thrown |-> FALSE], fns, 1)

\* The comparison of the scan, turned round (a variant of ScanLess)
ScanLessFlipped(line, min_line) == line > min_line \/ min_line = UINT64_MAX

\* The comparison "preds_[i].line < min_line" of the scan
ScanLess(line, min_line) == line < min_line

\* The for loop of next(): acc is [min_line, argmin, failed], argmin 0-based
RECURSIVE ArgminScan(_, _, _)
ArgminScan(m, i, acc) ==
    IF i > Len(m.done_) THEN acc
    ELSE IF m.done_[i] THEN ArgminScan(m, i + 1, acc)
    ELSE LET bad == \/ ~PredictionValid(m.preds_[i])
                    \/ m.preds_[i].line = acc.min_line
             nxt == IF ScanLess(m.preds_[i].line, acc.min_line)
                    THEN [min_line |-> m.preds_[i].line, argmin |-> i - 1,
                          failed |-> acc.failed \/ bad]
                    ELSE [acc EXCEPT !.failed = acc.failed \/ bad]
         IN ArgminScan(m, i + 1, nxt)

\* The test never made (a variant of Consecutive)
ConsecutiveAlways(head_line, ret_line) == TRUE

\* "preds_[f].line == next_pred.line + 1": the head follows the line returned
Consecutive(head_line, ret_line) == head_line = (ret_line + 1) % 2^WordBits

\* next() when next_ >= 0: the file to read from is known
NextKnown(m, fns) ==
    LET f == m.next_ + 1
        next_pred == m.preds_[f]
        a == advanceFile(m, fns, f)
    IN  IF a.ok \/ a.thrown
        THEN [obj |-> a, ret |-> next_pred]
        ELSE [obj |-> [a EXCEPT
                         !.failed = a.failed \/ a.preds_[f].line < next_pred.line,
                         !.next_ = IF ~Consecutive(a.preds_[f].line, next_pred.line)
                                   THEN -1 ELSE a.next_],
              ret |-> next_pred]

\* next() when next_ = -1: scan the heads of the files that are not done
NextScan(m, fns) ==
    LET s == ArgminScan(m, 1, [min_line |-> UINT64_MAX, argmin |-> -1,
                               failed |-> FALSE])
        m1 == [m EXCEPT !.failed = m.failed \/ s.failed]
    IN  IF s.argmin = -1
        THEN [obj |-> m1, ret |-> PredictionReset]
        ELSE LET f == s.argmin + 1
                 next_pred == m1.preds_[f]
             IN IF m1.done_[f]
                THEN [obj |-> m1, ret |-> next_pred]
                ELSE LET a == advanceFile(m1, fns, f)
                     IN IF a.ok \/ a.thrown
                        THEN [obj |-> a, ret |-> next_pred]
                        ELSE [obj |-> [a EXCEPT
                                 !.next_ = IF Consecutive(a.preds_[f].line,
                                                          next_pred.line)
                                           THEN s.argmin ELSE a.next_],
                              ret |-> next_pred]

\* PredictionMerger::next()
MergerNext(m, fns) ==
    IF m.next_ >= 0 THEN NextKnown(m, fns) ELSE NextScan(m, fns)

(***************************************************************************)
(* Inputs of the merger: files whose lines ascend strictly and occur in    *)
(* no two files.  owner[l] is the file that holds line l (0: none).        *)
(***************************************************************************)
RECURSIVE FileOf(_, _, _, _)
FileOf(owner, s, f, l) ==
    IF l > MaxLine THEN <<>>
    ELSE (IF owner[l] = f THEN <<Prediction(l, MapqAt(s, l))>> ELSE <<>>)
         \o FileOf(owner, s, f, l + 1)

MergerInputs ==
    UNION { { [f \in 1..n |-> FileOf(owner, s, f, 0)] :
                owner \in [0..MaxLine -> 0..n], s \in 0..1 } :
            n \in 0..MaxFiles }

IdleMg == [obj |-> PredictionMerger(<<>>), ret |-> PredictionReset,
           out |-> <<>>, calls |-> 0, pc |-> "idle"]

IdleScan == [pc |-> "idle"]

IdleRw == [pc |-> "idle"]
IdleFa == [pc |-> "idle"]
IdleSim == [pc |-> "idle"]
IdleAln == [pc |-> "idle"]
IdleLib == [pc |-> "idle"]
IdleTools ==
    /\ fasta = <<>>
    /\ fa = IdleFa
    /\ simread = IdleSim
    /\ aln = IdleAln
    /\ lib = IdleLib

MergeInit ==
    /\ in_fns \in MergerInputs
    /\ mg = [obj |-> PredictionMerger(in_fns), ret |-> PredictionReset,
             out |-> <<>>, calls |-> 0, pc |-> "ready"]
    /\ sam = <<>>
    /\ preds = <<>>
    /\ opts = [keep_ztz |-> FALSE, write_orig_mapq |-> FALSE,
               write_precise_mapq |-> FALSE]
    /\ scan = IdleScan
    /\ rw = IdleRw
    /\ IdleTools

\* One call of next() by the caller; an assertion failure ends the run
CallNext ==
    /\ mg.pc = "ready"
    /\ mg.calls < MaxCalls
    /\ LET r == MergerNext(mg.obj, in_fns)
       IN mg' = [obj |-> r.obj,
                 ret |-> r.ret,
                 out |-> IF PredictionValid(r.ret) /\ ~r.obj.failed
                         THEN Append(mg.out, r.ret) ELSE mg.out,
                 calls |-> mg.calls + 1,
                 pc |-> IF r.obj.failed THEN "abort" ELSE "ready"]
    /\ UNCHANGED <<in_fns, sam, preds, opts, scan, rw>>
    /\ UNCHANGED toolVars

MergeNext == CallNext

SpecMerge == MergeInit /\ [][MergeNext]_vars

(***************************************************************************)
(* The merger over files that end in the middle of a record.               *)
(***************************************************************************)
\* The bytes a file holds of its last, unfinished record
ShortTails == {1, 7, 8, 15}

\* File f of fns followed by b bytes of one more record
WithTail(fns, f, b) ==
    [fns EXCEPT ![f] = Append(fns[f], [line |-> MaxLine + 1, mapq |-> 4, bytes |-> b])]

ShortInputs ==
    UNION { { WithTail(fns, f, b) : f \in 1..Len(fns), b \in ShortTails } :
            fns \in { g \in MergerInputs : Len(g) <= 2 } }

\* The state of the caller after the constructor or a call of next():
\* "throw 1" is not caught by main
ShortPc(obj) ==
    IF obj.thrown THEN "thrown" ELSE IF obj.failed THEN "abort" ELSE "ready"

ShortInit ==
    /\ in_fns \in ShortInputs
    /\ mg = [obj |-> PredictionMerger(in_fns), ret |-> PredictionReset,
             out |-> <<>>, calls |-> 0, pc |-> ShortPc(PredictionMerger(in_fns))]
    /\ sam = <<>>
    /\ preds = <<>>
    /\ opts = [keep_ztz |-> FALSE, write_orig_mapq |-> FALSE,
               write_precise_mapq |-> FALSE]
    /\ scan = IdleScan
    /\ rw = IdleRw
    /\ IdleTools

\* One call of next() by the caller
ShortCallNext ==
    /\ mg.pc = "ready"
    /\ mg.calls < MaxCalls
    /\ LET r == MergerNext(mg.obj, in_fns)
           returned == ~r.obj.thrown /\ ~r.obj.failed
       IN mg' = [obj |-> r.obj,
                 ret |-> IF returned THEN r.ret ELSE mg.ret,
                 out |-> IF returned /\ PredictionValid(r.ret)
                         THEN Append(mg.out, r.ret) ELSE mg.out,
                 calls |-> mg.calls + 1,
                 pc |-> ShortPc(r.obj)]
    /\ UNCHANGED <<in_fns, sam, preds, opts, scan, rw>>
    /\ UNCHANGED toolVars

ShortNext == ShortCallNext

SpecShort == ShortInit /\ [][ShortNext]_vars

(***************************************************************************)
(* Text.  A C string is a sequence of one-character strings; buf[i] past   *)
(* the end reads the terminating NUL.                                      *)
(***************************************************************************)
TAB == "\t"
NL == "\n"
CR == "\r"
NUL == "NUL"

At(buf, i) == IF i <= Len(buf) THEN buf[i] ELSE NUL

Digits == <<"0", "1", "2", "3", "4", "5", "6", "7", "8", "9">>

IsDigit(c) == \E d \in 1..10 : Digits[d] = c

DigitVal(c) == (CHOOSE d \in 1..10 : Digits[d] = c) - 1

\* atoi on a string of digits: the value of the leading digits
RECURSIVE AtoiFrom(_, _, _)
AtoiFrom(buf, i, acc) ==
    IF IsDigit(At(buf, i)) THEN AtoiFrom(buf, i + 1, 10 * acc + DigitVal(buf[i]))
    ELSE acc

atoi(str) == AtoiFrom(str, 1, 0)

\* printf("%d") of a number that is not negative
RECURSIVE Itoa(_)
Itoa(n) == IF n < 10 THEN <<Digits[n + 1]>>
           ELSE Itoa(n \div 10) \o <<Digits[(n % 10) + 1]>>

\* strncmp(buf + i - 1, lit, Len(lit)) == 0
StartsWithAt(buf, i, lit) == \A k \in 1..Len(lit) : At(buf, i + k - 1) = lit[k]

\* The first index >= i of buf that holds a character of stops
RECURSIVE FindFrom(_, _, _)
FindFrom(buf, i, stops) ==
    IF i > Len(buf) \/ buf[i] \in stops THEN i ELSE FindFrom(buf, i + 1, stops)

\* The first index >= i of buf that holds no TAB
RECURSIVE SkipTabs(_, _)
SkipTabs(buf, i) ==
    IF i <= Len(buf) /\ buf[i] = TAB THEN SkipTabs(buf, i + 1) ELSE i

\* strtok(., "\t") from index i: [tok, next], tok = <<>> when it returns NULL
strtok(buf, i) ==
    LET b == SkipTabs(buf, i)
        e == FindFrom(buf, b, {TAB})
    IN [null |-> b > Len(buf), start |-> b,
        tok |-> SubSeq(buf, b, e - 1), next |-> e + 1]

RECURSIVE JoinTab(_)
JoinTab(fields) ==
    IF Len(fields) = 0 THEN <<>>
    ELSE IF Len(fields) = 1 THEN fields[1]
    ELSE fields[1] \o <<TAB>> \o JoinTab(Tail(fields))

\* The k-th TAB-separated column of a line, without the line's end
RECURSIVE ColFrom(_, _, _)
ColFrom(buf, i, k) ==
    LET e == FindFrom(buf, i, {TAB, NL, CR})
    IN IF k = 1 THEN SubSeq(buf, i, e - 1)
       ELSE IF At(buf, e) = TAB THEN ColFrom(buf, e + 1, k - 1)
       ELSE <<NUL>>

Col(buf, k) == ColFrom(buf, 1, k)

(***************************************************************************)
(* SAM lines of the inputs.                                                *)
(***************************************************************************)
ZTZ == <<"Z", "T", ":", "Z", ":">>

SIM_STARTSWITH_LITERAL == <<"q", "s", "i", "m", "!">>

SamRecordAt(qname, flag, pos, mapq, cigar, seq, qual, aux) ==
    JoinTab(<<qname, flag, <<"r">>, pos, mapq, cigar, <<"*">>,
              <<"0">>, <<"0">>, seq, qual>> \o aux) \o <<NL>>

\* A record at position 7 whose read matches the reference throughout
SamRecord(qname, flag, mapq, seq, qual, aux) ==
    SamRecordAt(qname, flag, <<"7">>, mapq, Itoa(Len(seq)) \o <<"=">>, seq, qual, aux)

\* A read name with the simulator's prefix that set_correctness reads to its
\* end without finding a tuple, and whose text after the last '!' is typ
SimQname(typ) == SIM_STARTSWITH_LITERAL \o <<":", "x", "!">> \o typ

AuxZT == ZTZ \o <<"5">>

LineHeader == <<"@", "H", "D", NL>>
LineUnp == SamRecord(<<"a">>, <<"0">>, <<"4", "2">>, <<"A">>, <<"I">>,
                     <<<<"A", "S", ":", "i", ":", "0">>, AuxZT,
                       <<"Y", "T", ":", "Z", ":", "U">>>>)
LineSec == SamRecord(<<"a">>, <<"2", "0", "4", "8">>, <<"0">>, <<"A">>, <<"I">>,
                     <<AuxZT>>)
LineQualZT == SamRecord(<<"z">>, <<"1", "6">>, <<"3">>,
                        <<"A", "C", "G", "T", "A">>, ZTZ, <<AuxZT>>)
LineUnal == SamRecord(<<"n">>, <<"4">>, <<"0">>, <<"A">>, <<"I">>, <<AuxZT>>)
LineM1c == SamRecord(<<"p">>, <<"6", "7">>, <<"9">>, <<"A", "C">>, <<"I", "I">>, <<AuxZT>>)
LineM2c == SamRecord(<<"p">>, <<"1", "3", "1">>, <<"9">>, <<"A", "C">>, <<"I", "I">>, <<AuxZT>>)
LineM1b == SamRecord(<<"b">>, <<"7", "3">>, <<"9">>, <<"A", "C">>, <<"I", "I">>, <<AuxZT>>)
LineM2u == SamRecord(<<"b">>, <<"1", "3", "3">>, <<"0">>, <<"A", "C">>, <<"I", "I">>, <<AuxZT>>)
LineSimC == SamRecord(SimQname(<<"c">>), <<"0">>, <<"1">>,
                      <<"A">>, <<"I">>, <<AuxZT>>)

LineSimU == SamRecord(SimQname(<<"u">>), <<"0">>, <<"1">>,
                      <<"A">>, <<"I">>, <<AuxZT>>)
LineSimD1 == SamRecord(SimQname(<<"d">>), <<"6", "5">>, <<"1">>,
                       <<"A", "C">>, <<"I", "I">>, <<AuxZT>>)
LineSimD2 == SamRecord(SimQname(<<"d">>), <<"1", "2", "9">>,
                       <<"1">>, <<"A", "C">>, <<"I", "I">>, <<AuxZT>>)
LineSimD1c == SamRecord(SimQname(<<"d">>), <<"6", "7">>,
                        <<"1">>, <<"A", "C">>, <<"I", "I">>, <<AuxZT>>)
LineSimD2c == SamRecord(SimQname(<<"d">>), <<"1", "3", "1">>,
                        <<"1">>, <<"A", "C">>, <<"I", "I">>, <<AuxZT>>)
LineSimB1 == SamRecord(SimQname(<<"b", "1">>), <<"7", "3">>,
                       <<"1">>, <<"A", "C">>, <<"I", "I">>, <<AuxZT>>)
LineSimUnal == SamRecord(SimQname(<<"u">>), <<"4">>, <<"0">>,
                         <<"A">>, <<"I">>, <<AuxZT>>)
LineSimBare == SamRecord(SIM_STARTSWITH_LITERAL \o <<"u">>, <<"0">>, <<"1">>,
                         <<"A">>, <<"I">>, <<AuxZT>>)
\* Lines of the SAM files given to the rewriter
RwPool == {LineHeader, LineUnp, LineSec, LineQualZT}

\* Lines of the SAM files given to the scanner alone
ScanPool == {LineHeader, LineUnp, LineSec, LineM1c, LineM2c,
             LineM1b, LineM2u, LineSimU, LineSimD1, LineSimD2,
             LineSimD1c, LineSimD2c, LineSimB1, LineSimUnal, LineSimBare}

SamFiles(pool) == UNION { [1..n -> pool] : n \in 0..MaxSamLines }

IsHeader(linebuf) == At(linebuf, 1) = "@"

\* flag & bit, for a bit that is a power of two
FlagBit(flag, bit) == (flag \div bit) % 2 = 1

(***************************************************************************)
(* The rewriter (qtip_rewrite.cpp).                                        *)
(***************************************************************************)
orig_mapq_flag == <<"Z", "m", ":", "i">>
precise_mapq_flag == <<"Z", "p", ":", "Z">>

\* (int)(mapq + 0.5f), mapq in tenths and not negative
RoundMapq(mapq) == (mapq + 5) \div 10

\* printf("%0.3f") of a mapq given in tenths
PreciseMapq(mapq) ==
    Itoa(mapq \div 10) \o <<".", Digits[(mapq % 10) + 1], "0", "0">>

\* The index that follows the n-th TAB at or after index i
RECURSIVE AfterTabs(_, _, _)
AfterTabs(buf, i, n) ==
    IF n = 0 THEN i ELSE AfterTabs(buf, FindFrom(buf, i, {TAB}) + 1, n - 1)

\* The loop of rewrite() that copies what follows the MAPQ column up to the
\* end of the line, leaving out a field that begins with ZT:Z: unless keep_ztz
RECURSIVE CopyRest(_, _, _)
CopyRest(buf, i, keep_ztz) ==
    IF At(buf, i) \in {NL, CR, NUL} THEN <<>>
    ELSE LET at_tab == ~keep_ztz /\ buf[i] = TAB
             j == IF at_tab /\ StartsWithAt(buf, i + 1, ZTZ)
                  THEN FindFrom(buf, i + 6, {TAB, NL, CR})
                  ELSE i
         IN IF at_tab /\ At(buf, j) \in {NL, CR, NUL} THEN <<>>
            ELSE <<buf[j]>> \o CopyRest(buf, j + 1, keep_ztz)

\* rewrite(fh, buf, mapq): the characters written
rewrite(buf, mapq, o) ==
    LET p5 == AfterTabs(buf, 1, 4)
        p6 == FindFrom(buf, p5, {TAB})
        orig == SubSeq(buf, p5, p6 - 1)
    IN SubSeq(buf, 1, p5 - 1)
       \o Itoa(RoundMapq(mapq))
       \o CopyRest(buf, p6, o.keep_ztz)
       \o (IF o.write_orig_mapq
           THEN <<TAB>> \o orig_mapq_flag \o <<":">> \o orig ELSE <<>>)
       \o (IF o.write_precise_mapq
           THEN <<TAB>> \o precise_mapq_flag \o <<":">> \o PreciseMapq(mapq)
           ELSE <<>>)
       \o <<NL>>

\* The ordinal that leaves header lines out (a variant of NlineAfter)
NlineAfterSkipHeader(nline, linebuf) ==
    IF IsHeader(linebuf) THEN nline ELSE nline + 1

\* "nline++" of main, made for every line that fgets returns
NlineAfter(nline, linebuf) == nline + 1

\* The check compiled out (a variant of AssertAtEof)
AssertAtEofOff(done_with_predictions) == TRUE

\* "assert(done_with_predictions)" made when fgets finds the SAM file ended
AssertAtEof(done_with_predictions) == done_with_predictions

\* The locals of main at the top of the loop over one (SAM, prediction) pair;
\* sam_pos and pred_pos are the positions of the two input files, osam the
\* lines written, osrc[k] the position of the input line that osam[k] was
\* written for, ords[p] the value of nline with which the line at position p
\* was compared with pred_line, applied the calls of rewrite(), failed the
\* source line of the assertion that ended the run.
RwStart ==
    [pc |-> "pred", sam_pos |-> 0, pred_pos |-> 0, last_line |-> 0,
     done_with_predictions |-> FALSE, done_with_sam |-> FALSE,
     nline |-> 0, nhead |-> 0, pred_line |-> 0, mapq |-> 0,
     osam |-> <<>>, osrc |-> <<>>, ords |-> <<>>, applied |-> <<>>, failed |-> 0]

\* The mapq, in tenths, of the prediction for line l of a rewriter input
RwMapqAt(l) == CASE l % 3 = 0 -> 4 [] l % 3 = 1 -> 5 [] OTHER -> 26

RECURSIVE RwPredFile(_, _)
RwPredFile(S, l) ==
    IF l > MaxSamLines + 1 THEN <<>>
    ELSE (IF l \in S THEN <<Prediction(l, RwMapqAt(l))>> ELSE <<>>)
         \o RwPredFile(S, l + 1)

\* The prediction files of a run: one file, or that file and a second one
\* whose only prediction is for the first line the first file leaves out
RwPredInputs ==
    UNION { {<<RwPredFile(S, 1)>>} \cup
            { <<RwPredFile(S, 1), RwPredFile({e}, 1)>> :
                e \in { x \in 1..MaxSamLines + 1 :
                          x \notin S /\ \A y \in 1..(x - 1) : y \in S } } :
            S \in SUBSET (1..MaxSamLines + 1) }

OptPool ==
    { [keep_ztz |-> FALSE, write_orig_mapq |-> FALSE, write_precise_mapq |-> FALSE],
      [keep_ztz |-> TRUE, write_orig_mapq |-> FALSE, write_precise_mapq |-> FALSE],
      [keep_ztz |-> TRUE, write_orig_mapq |-> TRUE, write_precise_mapq |-> FALSE],
      [keep_ztz |-> FALSE, write_orig_mapq |-> TRUE, write_precise_mapq |-> TRUE] }

RewriteInit ==
    /\ in_fns = <<>>
    /\ mg = IdleMg
    /\ sam \in SamFiles(RwPool)
    /\ preds \in RwPredInputs
    /\ opts \in OptPool
    /\ scan = IdleScan
    /\ rw = RwStart
    /\ IdleTools

\* The top of the while loop with its condition true: next_prediction()
RwNextPrediction ==
    /\ rw.pc = "pred"
    /\ ~(rw.done_with_predictions /\ rw.done_with_sam)
    /\ IF rw.pred_pos >= Len(preds[1])
       THEN rw' = [rw EXCEPT !.pc = "sam", !.pred_line = 0, !.mapq = 0,
                             !.done_with_predictions = TRUE]
       ELSE LET rec == preds[1][rw.pred_pos + 1]
                ok == (rw.last_line = 0 \/ rec.line > rw.last_line) /\ rec.mapq >= 0
            IN rw' = [rw EXCEPT !.pc = IF ok THEN "sam" ELSE "abort",
                                !.failed = IF ok THEN 0 ELSE 56,
                                !.pred_pos = rw.pred_pos + 1,
                                !.last_line = rec.line,
                                !.pred_line = rec.line,
                                !.mapq = rec.mapq]
    /\ UNCHANGED <<in_fns, mg, sam, preds, opts, scan>>
    /\ UNCHANGED toolVars

\* One turn of the inner loop: fgets on the SAM file and what follows
RwSamLine ==
    /\ rw.pc = "sam"
    /\ IF rw.sam_pos >= Len(sam)
       THEN rw' = IF AssertAtEof(rw.done_with_predictions)
                  THEN [rw EXCEPT !.done_with_sam = TRUE, !.pc = "pred"]
                  ELSE [rw EXCEPT !.pc = "abort", !.failed = 211]
       ELSE LET linebuf == sam[rw.sam_pos + 1]
                n == NlineAfter(rw.nline, linebuf)
                r == [rw EXCEPT !.sam_pos = rw.sam_pos + 1, !.nline = n,
                                 !.ords = Append(rw.ords, n)]
            IN IF ~(rw.done_with_predictions \/ n <= rw.pred_line)
               THEN rw' = [r EXCEPT !.pc = "abort", !.failed = 216]
               ELSE IF IsHeader(linebuf)
               THEN rw' = [r EXCEPT !.nhead = rw.nhead + 1,
                                    !.osam = Append(rw.osam, linebuf),
                                    !.osrc = Append(rw.osrc, r.sam_pos)]
               ELSE IF rw.done_with_predictions \/ rw.pred_line > n
               THEN rw' = [r EXCEPT !.osam = Append(rw.osam, linebuf),
                                    !.osrc = Append(rw.osrc, r.sam_pos)]
               ELSE rw' = [r EXCEPT
                             !.osam = Append(rw.osam, rewrite(linebuf, rw.mapq, opts)),
                             !.osrc = Append(rw.osrc, r.sam_pos),
                             !.applied = Append(rw.applied,
                                 [pos |-> r.sam_pos, line |-> rw.pred_line,
                                  mapq |-> rw.mapq]),
                             !.pc = "pred"]
    /\ UNCHANGED <<in_fns, mg, sam, preds, opts, scan>>
    /\ UNCHANGED toolVars

\* The while condition false: the last assertion holds and the files are closed
RwFinish ==
    /\ rw.pc = "pred"
    /\ rw.done_with_predictions /\ rw.done_with_sam
    /\ rw' = [rw EXCEPT !.pc = "done"]
    /\ UNCHANGED <<in_fns, mg, sam, preds, opts, scan>>
    /\ UNCHANGED toolVars

RewriteNext == RwNextPrediction \/ RwSamLine \/ RwFinish

SpecRewrite == RewriteInit /\ [][RewriteNext]_vars

(***************************************************************************)
(* A run of the rewriter over several (SAM, prediction file) pairs (the    *)
(* for loop of main): the locals start over for each pair, the output file *)
(* and the static last_line of next_prediction live through the run.       *)
(***************************************************************************)
MaxPairs == 2       \* (SAM, prediction file) pairs of a run
MaxPairLines == 2   \* lines of a SAM file of such a run

PairFiles ==
    { [sam |-> f, pred |-> RwPredFile(S, 1)] :
        f \in UNION { [1..n -> {LineHeader, LineUnp}] : n \in 0..MaxPairLines },
        S \in SUBSET (1..MaxPairLines) }

PairInputs == UNION { [1..n -> PairFiles] : n \in 1..MaxPairs }

RewriteRunStart(pairs) == [pc |-> "rewrite", pairs |-> pairs, i |-> 1]

\* The next turn of "for(size_t i = 0; i < sams.size(); i++)"
NextPairBody(run, r) ==
    [run |-> [run EXCEPT !.i = run.i + 1],
     rw |-> [RwStart EXCEPT !.last_line = r.last_line, !.osam = r.osam]]

ManyInit ==
    /\ in_fns = <<>>
    /\ mg = IdleMg
    /\ \E pairs \in PairInputs :
          /\ lib = RewriteRunStart(pairs)
          /\ sam = pairs[1].sam
          /\ preds = <<pairs[1].pred>>
    /\ opts = [keep_ztz |-> FALSE, write_orig_mapq |-> FALSE,
               write_precise_mapq |-> FALSE]
    /\ scan = IdleScan
    /\ rw = RwStart
    /\ fasta = <<>>
    /\ fa = IdleFa
    /\ simread = IdleSim
    /\ aln = IdleAln

NextPair ==
    /\ lib.pc = "rewrite" /\ rw.pc = "done" /\ lib.i < Len(lib.pairs)
    /\ LET o == NextPairBody(lib, rw)
       IN /\ lib' = o.run
          /\ rw' = o.rw
          /\ sam' = o.run.pairs[o.run.i].sam
          /\ preds' = <<o.run.pairs[o.run.i].pred>>
    /\ UNCHANGED <<in_fns, mg, opts, scan, fasta, fa, simread, aln>>

ManyNext == RwNextPrediction \/ RwSamLine \/ RwFinish \/ NextPair

SpecRewriteMany == ManyInit /\ [][ManyNext]_vars

(***************************************************************************)
(* The scanner (qsim_parse.cpp, sam_pass1), run with the four feature      *)
(* files open.  A line buffer holds the text read into it and src, the     *)
(* position in the SAM file of that text.  An Alignment holds buf, the     *)
(* number of the line buffer its qname and rest_of_line point into (0 for  *)
(* NULL); typ is <<NUL>> for NULL.  A feature row keeps the file it was    *)
(* written to, its id column, and the text and src of the buffer its       *)
(* other columns were parsed from.                                         *)
(***************************************************************************)
NoTyp == <<NUL>>

\* Alignment::clear()
AlignmentClear ==
    [valid |-> FALSE, flag |-> 0, line |-> 0, buf |-> 0, typ |-> NoTyp]

is_aligned(al) == ~FlagBit(al.flag, 4)

is_concordant(al) == FlagBit(al.flag, 2)

mate_flag(al) ==
    IF FlagBit(al.flag, 64) THEN "1" ELSE IF FlagBit(al.flag, 128) THEN "2" ELSE "0"

\* The position of the last '!' of a qname
RECURSIVE LastBang(_, _, _)
LastBang(qname, i, found) ==
    IF i > Len(qname) THEN found
    ELSE LastBang(qname, i + 1, IF qname[i] = "!" THEN i ELSE found)

\* No read name gives a type (a variant of SimTyp)
SimTypNone(qname) == NoTyp

\* al_cur.typ after lines 1165-1176: the text after the last '!' of a qname
\* that begins with sim_startswith, NULL for another qname
SimTyp(qname) ==
    IF StartsWithAt(qname, 1, SIM_STARTSWITH_LITERAL)
    THEN SubSeq(qname, LastBang(qname, 1, 0) + 1, Len(qname))
    ELSE NoTyp

\* The ordinal that leaves header lines out (a variant of ScanNlineAfter)
ScanNlineAfterSkipHeader(nline, line) ==
    IF IsHeader(line) THEN nline ELSE nline + 1

\* "nline++" of sam_pass1, made for every line that fgets returns
ScanNlineAfter(nline, line) == nline + 1

(***************************************************************************)
(* The FASTA parser (fasta.h, fasta.cpp).  A FASTA file is a sequence of   *)
(* one-character strings.  buf_ is a function on 1..chunksz, "?" where the *)
(* array was never written; the local pointer buf of next() is kept as the *)
(* offset buf - buf_.                                                      *)
(***************************************************************************)
MaxChunk == 3       \* largest chunksz given to a parser
MaxFaItems == 3     \* records and file ends in the input of a parser

EOFc == "EOF"
NoPushback == "INT_MIN"
isspace(c) == c \in {" ", TAB, NL, CR}

\* The table dna_upper
dna_upper(c) ==
    CASE c \in {"A", "a"} -> "A"
      [] c \in {"C", "c"} -> "C"
      [] c \in {"G", "g"} -> "G"
      [] c \in {"T", "t"} -> "T"
      [] OTHER -> "N"

RECURSIVE Flatten(_)
Flatten(seqs) == IF Len(seqs) = 0 THEN <<>> ELSE Head(seqs) \o Flatten(Tail(seqs))

\* The records the input files are made of: the name and the rest of the
\* defline, the line end used, and the lines of sequence
FaRec1 == [name |-> <<"r", "1">>, rest |-> <<" ", "d">>, eol |-> <<NL>>,
           lines |-> << <<"A", "C", "g">>, <<"T", "n">> >>]
FaRec2 == [name |-> <<"s">>, rest |-> <<>>, eol |-> <<CR, NL>>,
           lines |-> << <<"T", "T", "x">>, <<"A">> >>]
FaRec3 == [name |-> <<"e">>, rest |-> <<TAB, "z">>, eol |-> <<NL>>,
           lines |-> << >>]
FaRec4 == [name |-> <<"k">>, rest |-> <<>>, eol |-> <<NL>>,
           lines |-> << <<"G">> >>]
FaRecPool == {FaRec1, FaRec2, FaRec3, FaRec4}
FaFileEnd == [name |-> <<>>, rest |-> <<>>, eol |-> <<>>, lines |-> <<>>]

\* The text of a record in its file
FaText(rec) ==
    <<">">> \o rec.name \o rec.rest \o rec.eol
    \o Flatten([k \in 1..Len(rec.lines) |-> rec.lines[k] \o rec.eol])

\* The records of the files of an input: a file ends at each FaFileEnd and
\* at the end of the input
RECURSIVE FaSplit(_, _)
FaSplit(items, cur) ==
    IF Len(items) = 0 THEN <<cur>>
    ELSE IF Head(items) = FaFileEnd THEN <<cur>> \o FaSplit(Tail(items), <<>>)
    ELSE FaSplit(Tail(items), Append(cur, Head(items)))

FaFileText(recs) == Flatten([k \in 1..Len(recs) |-> FaText(recs[k])])

FaInputs ==
    { [recs |-> FaSplit(items, <<>>),
       fns |-> [f \in 1..Len(FaSplit(items, <<>>)) |->
                   FaFileText(FaSplit(items, <<>>)[f])],
       chunksz |-> cs, olap |-> ol] :
        items \in UNION { [1..n -> FaRecPool \cup {FaFileEnd}] : n \in 0..MaxFaItems },
        cs \in 1..MaxChunk, ol \in 0..(MaxChunk - 1) }

\* FastaChunkwiseParser(fns, chunksz, olap); fpos is the position of fh_
FastaChunkwiseParser(chunksz, olap) ==
    [fni_ |-> 0, foff_ |-> 0, refoff_ |-> 0, open |-> FALSE, fpos |-> 0,
     buf_ |-> [i \in 1..chunksz |-> "?"], bufcur_ |-> 0,
     chunksz_ |-> chunksz, olap_ |-> olap, pushback_ |-> NoPushback]

\* done()
FaDone(o, fns) == o.fni_ >= Len(fns)

\* A state of a call of next(): the object o, the locals buf and first, the
\* caller's refid, refid_full, refoff and retsz, nref the number of deflines
\* read from the file, ret what the call returns
FaFgetc(st, file) ==
    IF st.o.fpos < Len(file)
    THEN [c |-> file[st.o.fpos + 1], st |-> [st EXCEPT !.o.fpos = st.o.fpos + 1]]
    ELSE [c |-> EOFc, st |-> st]

\* get(fh)
FaGet(st, file) ==
    IF st.o.pushback_ # NoPushback
    THEN [c |-> st.o.pushback_, st |-> [st EXCEPT !.o.pushback_ = NoPushback]]
    ELSE FaFgetc(st, file)

\* The second loop over the defline: up to the end of the line; at the end
\* of the file the loop never ends
RECURSIVE FaReadRest(_, _, _)
FaReadRest(st, c, file) ==
    IF c = EOFc THEN [st EXCEPT !.ret = "hang"]
    ELSE IF c # NL /\ c # CR
    THEN LET g == FaFgetc(st, file)
         IN FaReadRest([g.st EXCEPT !.refid_full = Append(st.refid_full, c)],
                       g.c, file)
    ELSE st

\* The first loop over the defline: up to the first white space
RECURSIVE FaReadName(_, _, _)
FaReadName(st, c, file) ==
    IF c = EOFc THEN [st EXCEPT !.ret = "hang"]
    ELSE IF ~isspace(c)
    THEN LET g == FaFgetc(st, file)
         IN FaReadName([g.st EXCEPT !.refid = Append(st.refid, c),
                                    !.refid_full = Append(st.refid_full, c)],
                       g.c, file)
    ELSE FaReadRest(st, c, file)

\* return buf_ with retsz = bufcur_ = n
FaReturn(st, n) ==
    [st EXCEPT !.retsz = n, !.o.bufcur_ = n, !.refoff = st.o.refoff_ - n,
               !.ret = "buf_"]

\* The record begun without emptying the buffer (a variant of StartRecord)
StartRecordKeepBuf(s) ==
    [s EXCEPT !.o.refoff_ = 0, !.refid = <<>>, !.refid_full = <<>>,
              !.nref = s.nref + 1]

\* What next() does at '>' before it reads the defline
StartRecord(s) ==
    [s EXCEPT !.o.bufcur_ = 0, !.buf = 0, !.o.refoff_ = 0, !.refid = <<>>,
              !.refid_full = <<>>, !.nref = s.nref + 1]

\* The rest of the buffer never returned (a variant of ReturnsRest)
ReturnsRestNever(first) == FALSE

\* "if(!first)" at the end of the file and at '>'
ReturnsRest(first) == ~first

\* The while(true) loop of next()
RECURSIVE FaLoop(_, _)
FaLoop(st, file) ==
    LET g == FaGet(st, file)
        c == g.c
        s == g.st
    IN  IF c = EOFc
        THEN IF ReturnsRest(s.first)
             THEN FaReturn([s EXCEPT !.o.pushback_ = EOFc], s.buf)
             ELSE [s EXCEPT !.o.bufcur_ = 0, !.o.foff_ = 0,
                            !.o.fni_ = s.o.fni_ + 1, !.o.open = FALSE,
                            !.ret = "NULL"]
        ELSE IF c = ">"
        THEN IF ReturnsRest(s.first)
             THEN FaReturn([s EXCEPT !.o.pushback_ = ">"], s.buf)
             ELSE LET h == FaFgetc(StartRecord(s), file)
                      n == FaReadName(h.st, h.c, file)
                  IN IF n.ret = "hang" THEN n ELSE FaLoop(n, file)
        ELSE IF ~isspace(c)
        THEN LET s1 == [s EXCEPT !.first = FALSE,
                                 !.o.buf_[s.buf + 1] = dna_upper(c),
                                 !.buf = s.buf + 1,
                                 !.o.refoff_ = s.o.refoff_ + 1,
                                 !.o.foff_ = s.o.foff_ + 1]
             IN IF s1.buf = s1.o.chunksz_ THEN FaReturn(s1, s1.o.chunksz_)
                ELSE FaLoop(s1, file)
        ELSE FaLoop(s, file)

\* The overlap moved to the front of buf_ ("Move over")
MoveOver(o) ==
    [o EXCEPT !.buf_ = [i \in 1..o.chunksz_ |->
                          IF i <= o.olap_ THEN o.buf_[o.bufcur_ - o.olap_ + i]
                          ELSE o.buf_[i]],
              !.bufcur_ = o.olap_]

\* The move never made (a variant of MovesOver)
MovesOverNever(o) == FALSE

\* "if(bufcur_ >= olap_)"
MovesOver(o) == o.bufcur_ >= o.olap_

\* next(refid, refid_full, refoff, retsz) on a parser that is not done
FaNextCall(st, fns) ==
    LET o1 == IF st.o.foff_ = 0
              THEN [st.o EXCEPT !.open = TRUE, !.fpos = 0] ELSE st.o
        nref == IF st.o.foff_ = 0 THEN 0 ELSE st.nref
        o2 == IF MovesOver(o1) THEN MoveOver(o1) ELSE o1
        buf == IF MovesOver(o1) THEN o1.olap_ ELSE 0
    IN FaLoop([st EXCEPT !.o = o2, !.buf = buf, !.first = TRUE, !.nref = nref,
                         !.ret = "none"],
              fns[st.o.fni_ + 1])

\* The parser built and the caller's variables before the first call; wins
\* are the windows returned so far: the file and the number of the defline
\* the parser had read in it, and what the caller was given
FaStart(in) ==
    [pc |-> "run", ncall |-> 0, wins |-> <<>>,
     st |-> [o |-> FastaChunkwiseParser(in.chunksz, in.olap), buf |-> 0,
             first |-> TRUE, refid |-> <<>>, refid_full |-> <<>>,
             refoff |-> 0, retsz |-> 0, nref |-> 0, ret |-> "none"]]

FastaInit ==
    /\ in_fns = <<>>
    /\ mg = IdleMg
    /\ sam = <<>>
    /\ preds = <<>>
    /\ opts = [keep_ztz |-> FALSE, write_orig_mapq |-> FALSE,
               write_precise_mapq |-> FALSE]
    /\ scan = IdleScan
    /\ rw = IdleRw
    /\ fasta \in { in \in FaInputs : in.chunksz > in.olap }
    /\ fa = FaStart(fasta)
    /\ simread = IdleSim
    /\ aln = IdleAln
    /\ lib = IdleLib

\* One call of next() by a caller that loops until done()
FaNext ==
    /\ fa.pc = "run"
    /\ ~FaDone(fa.st.o, fasta.fns)
    /\ LET file == fa.st.o.fni_ + 1
           r == FaNextCall(fa.st, fasta.fns)
       IN fa' = [pc |-> IF r.ret = "hang" THEN "hang" ELSE "run",
                 ncall |-> fa.ncall + 1,
                 wins |-> IF r.ret = "buf_"
                          THEN Append(fa.wins,
                                 [file |-> file, ref |-> r.nref,
                                  refid |-> r.refid, refid_full |-> r.refid_full,
                                  refoff |-> r.refoff, retsz |-> r.retsz,
                                  buf |-> SubSeq([i \in 1..r.o.chunksz_ |-> r.o.buf_[i]],
                                                 1, r.retsz)])
                          ELSE fa.wins,
                 st |-> r]
    /\ UNCHANGED <<in_fns, mg, sam, preds, opts, scan, rw, fasta, simread, aln, lib>>

FastaNext == FaNext
SpecFasta == FastaInit /\ [][FastaNext]_vars

(***************************************************************************)
(* The simulated read (simplesim.h, simplesim.cpp): init() followed by     *)
(* mutate(), then write().  Assertions are compiled in.  seq is the text   *)
(* at the pointer given to init() up to its terminator; seq_buf is the     *)
(* part of seq_buf_ written so far.  Both .cpp files that use sim_sep use  *)
(* it as a C string ("%s", strlen, strncmp) although simplesim.h declares  *)
(* it a char; it is modelled as the string of that one character.          *)
(***************************************************************************)
MaxXs == 3

sim_sep == <<":">>

\* The characters draw_base() returns
Bases == {"A", "C", "G", "T"}

\* What a read past the terminator of seq can find
OobPool == {NUL, "G"}

Letters ==
    {"A", "B", "C", "D", "E", "F", "G", "H", "I", "J", "K", "L", "M", "N",
     "O", "P", "Q", "R", "S", "T", "U", "V", "W", "X", "Y", "Z",
     "a", "b", "c", "d", "e", "f", "g", "h", "i", "j", "k", "l", "m", "n",
     "o", "p", "q", "r", "s", "t", "u", "v", "w", "x", "y", "z"}

isalpha(c) == c \in Letters

\* The inputs of init(): reference texts, transcripts, quality strings
SimRefs == {<<"A", "C", "G", "T">>, <<"A">>, <<"N", "-", "C">>}
XsOps == {"=", "X", "I", "D", "S", "N"}
SimXscripts == UNION { [1..n -> XsOps] : n \in 0..MaxXs }
QualText == <<"E", "D", "C", "B", "A">>
SimQual(n) == [k \in 1..n |-> QualText[((k - 1) % Len(QualText)) + 1]]
SimRefid == <<"c", "h", "r", "3">>
SimRefoff == 1000
SimScores == {-12}
SimTypes == {<<"u">>}

\* The number of characters of a transcript that put a base in the read
RECURSIVE NumReadOps(_, _)
NumReadOps(xs, i) ==
    IF i > Len(xs) THEN 0
    ELSE (IF xs[i] \in {"=", "X", "I", "S"} THEN 1 ELSE 0) + NumReadOps(xs, i + 1)

\* init(seq, qual, edit_xscript, fw, score, refid, refoff) up to the loop of
\* mutate()
SimStart(seq, qual, xs, fw, score) ==
    [pc |-> "mutate", seq |-> seq, qual_ |-> qual, edit_xscript_ |-> xs,
     fw_ |-> fw, score_ |-> score, refid_ |-> SimRefid, refoff_ |-> SimRefoff,
     i |-> 0, rdoff |-> 0, rfoff |-> 0, seq_buf |-> <<>>, failed |-> 0,
     out |-> <<>>]

\* The characters seq[rfoff] can be: a character of seq, its terminator, or
\* whatever lies behind the terminator
SeqAt(seq, rfoff) ==
    IF rfoff < Len(seq) THEN {seq[rfoff + 1]}
    ELSE IF rfoff = Len(seq) THEN {NUL}
    ELSE OobPool

\* An insertion that moves on in the reference too (a variant of RfoffAfter)
RfoffAfterAlways(op, rfoff) == rfoff + 1

\* rfoff after one character of the transcript: "rfoff++" in the branches
\* of '=', 'X', 'D' and 'S'
RfoffAfter(op, rfoff) == IF op = "I" THEN rfoff ELSE rfoff + 1

SimFail(rd, at) == [rd EXCEPT !.pc = "abort", !.failed = at]

\* One turn of the for loop of mutate(); c is seq[rfoff], b the base that
\* draw_base() returned last (for 'X', the first draw that differs from c)
MutateBody(rd, c, b) ==
    LET op == rd.edit_xscript_[rd.i + 1]
        put(ch) == [rd EXCEPT !.i = rd.i + 1,
                              !.seq_buf = Append(rd.seq_buf, ch),
                              !.rdoff = rd.rdoff + 1,
                              !.rfoff = RfoffAfter(op, rd.rfoff)]
    IN  IF op = "="
        THEN IF c = NUL THEN SimFail(rd, 39)
             ELSE IF ~isalpha(c) THEN SimFail(rd, 40)
             ELSE put(c)
        ELSE IF op = "X"
        THEN IF c = NUL THEN SimFail(rd, 43)
             ELSE IF ~isalpha(c) THEN SimFail(rd, 44)
             ELSE put(b)
        ELSE IF op = "I" THEN put(b)
        ELSE IF op = "D"
        THEN [rd EXCEPT !.i = rd.i + 1, !.rfoff = RfoffAfter(op, rd.rfoff)]
        ELSE IF op = "S" THEN put(b)
        ELSE [rd EXCEPT !.pc = "throw", !.failed = 58]

\* The end of mutate(): the assertions on rdoff and the terminator
MutateEnd(rd) ==
    IF rd.rdoff # Len(rd.qual_) THEN SimFail(rd, 61)
    ELSE [rd EXCEPT !.pc = "mutated"]

\* The table asc2dnacomp
asc2dnacomp(c) ==
    CASE c \in {"A", "a"} -> "T"
      [] c \in {"B", "b"} -> "V"
      [] c \in {"C", "c"} -> "G"
      [] c \in {"D", "d"} -> "H"
      [] c \in {"G", "g"} -> "C"
      [] c \in {"H", "h"} -> "D"
      [] c \in {"K", "k"} -> "M"
      [] c \in {"M", "m"} -> "K"
      [] c \in {"N", "n"} -> "N"
      [] c \in {"R", "r"} -> "Y"
      [] c \in {"S", "s"} -> "S"
      [] c \in {"T", "t"} -> "A"
      [] c \in {"V", "v"} -> "B"
      [] c \in {"W", "w"} -> "W"
      [] c \in {"Y", "y"} -> "R"
      [] c = "-" -> "-"
      [] OTHER -> NUL

\* printf's %d and %llu
FormatInt(n) == IF n < 0 THEN <<"-">> \o Itoa(0 - n) ELSE Itoa(n)

\* The read name write() prints after '@'
SimName(rd, typ) ==
    SIM_STARTSWITH_LITERAL \o sim_sep \o rd.refid_ \o sim_sep
      \o <<IF rd.fw_ THEN "+" ELSE "-">> \o sim_sep
      \o FormatInt(rd.refoff_) \o sim_sep
      \o FormatInt(rd.score_) \o sim_sep \o typ

\* The quality line written as it is stored (a variant of WriteQual)
WriteQualAsStored(rd) == rd.qual_

\* The quality line of write()
WriteQual(rd) ==
    LET len == Len(rd.qual_)
    IN IF rd.fw_ THEN rd.qual_
       ELSE [k \in 1..len |-> rd.qual_[len - k + 1]]

\* The sequence line of write()
WriteSeq(rd) ==
    LET len == Len(rd.qual_)
    IN IF rd.fw_ THEN rd.seq_buf
       ELSE [k \in 1..len |-> asc2dnacomp(rd.seq_buf[len - k + 1])]

\* write(fh, typ): the four lines of the FASTQ record
SimWriteRecord(rd, typ) ==
    <<<<"@">> \o SimName(rd, typ), WriteSeq(rd), <<"+">>, WriteQual(rd)>>

SimInit ==
    /\ in_fns = <<>>
    /\ mg = IdleMg
    /\ sam = <<>>
    /\ preds = <<>>
    /\ opts = [keep_ztz |-> FALSE, write_orig_mapq |-> FALSE,
               write_precise_mapq |-> FALSE]
    /\ scan = IdleScan
    /\ rw = IdleRw
    /\ fasta = <<>>
    /\ fa = IdleFa
    /\ aln = IdleAln
    /\ lib = IdleLib
    /\ \E seq \in SimRefs, xs \in SimXscripts, fw \in BOOLEAN,
          score \in SimScores, extra \in 0..1 :
          simread = SimStart(seq, SimQual(NumReadOps(xs, 1) + extra), xs, fw, score)

SimMutateStep ==
    /\ simread.pc = "mutate"
    /\ simread.i < Len(simread.edit_xscript_)
    /\ \E c \in SeqAt(simread.seq, simread.rfoff), b \in Bases :
          /\ (simread.edit_xscript_[simread.i + 1] = "X") => b # c
          /\ simread' = MutateBody(simread, c, b)
    /\ UNCHANGED <<in_fns, mg, sam, preds, opts, scan, rw, fasta, fa, aln, lib>>

SimMutateEnd ==
    /\ simread.pc = "mutate"
    /\ simread.i = Len(simread.edit_xscript_)
    /\ simread' = MutateEnd(simread)
    /\ UNCHANGED <<in_fns, mg, sam, preds, opts, scan, rw, fasta, fa, aln, lib>>

SimWrite ==
    /\ simread.pc = "mutated"
    /\ \E typ \in SimTypes :
          simread' = [simread EXCEPT !.pc = "written",
                                     !.out = SimWriteRecord(simread, typ)]
    /\ UNCHANGED <<in_fns, mg, sam, preds, opts, scan, rw, fasta, fa, aln, lib>>

SimNext == SimMutateStep \/ SimMutateEnd \/ SimWrite
SpecSim == SimInit /\ [][SimNext]_vars

(***************************************************************************)
(* Alignment::set_correctness (qsim_parse.cpp), on the fields qname,       *)
(* rname, flag and pos of an aligned record.  A cursor into qname is the   *)
(* index of the character it points to; the character at and behind the    *)
(* terminator reads as NUL (the inputs keep the cursor inside the name).   *)
(***************************************************************************)
MaxWiggle == 3

\* abs((int)(a - b)) for size_t a and b less than 2^31 apart: the cast gives
\* back the difference the unsigned subtraction wrapped
abs(x) == IF x < 0 THEN 0 - x ELSE x

\* The first index >= i of buf that holds no digit
RECURSIVE NumEnd(_, _)
NumEnd(buf, i) == IF IsDigit(At(buf, i)) THEN NumEnd(buf, i + 1) ELSE i

\* The read name write_pair() prints after '@'
SimPairName(rd1, rd2, typ) ==
    SIM_STARTSWITH_LITERAL \o sim_sep \o rd1.refid_ \o sim_sep
      \o <<IF rd1.fw_ THEN "+" ELSE "-">> \o sim_sep
      \o FormatInt(rd1.refoff_) \o sim_sep
      \o FormatInt(rd1.score_) \o sim_sep
      \o rd2.refid_ \o sim_sep
      \o <<IF rd2.fw_ THEN "+" ELSE "-">> \o sim_sep
      \o FormatInt(rd2.refoff_) \o sim_sep
      \o FormatInt(rd2.score_) \o sim_sep \o typ

\* The truth a read name is written from
AlnRefids == {<<"r">>, <<"r", "s">>}
AlnRefoffs == {7, 9}
AlnTruths ==
    { [refid_ |-> id, fw_ |-> fw, refoff_ |-> off, score_ |-> -12] :
        id \in AlnRefids, fw \in BOOLEAN, off \in AlnRefoffs }
AlnWgsimName ==
    <<"r", "_", "8", "_", "1", "2", "_", "0", ":", "0", ":", "0", "_",
      "0", ":", "0", ":", "0", "_", "5", "_", "5", "_", "0", "_", "1", "/", "1">>
AlnOtherName == <<"r", "e", "a", "d", "1">>
AlnNames ==
    { SimName(t, <<"u">>) : t \in AlnTruths }
      \cup { SimPairName(p[1], p[2], <<"c">>) :
               p \in { t \in AlnTruths \X AlnTruths : t[1].refid_ = t[2].refid_ } }
      \cup {AlnWgsimName, AlnOtherName}
AlnRnames == {<<"r">>, <<"s">>}
AlnFlags == {0, 16, 67, 83, 131, 147}
AlnPositions == {5, 8, 10, 11}

is_fw(al) == ~FlagBit(al.flag, 16)

AlnStart(qname, rname, flag, pos, wiggle) ==
    [pc |-> "parsed", qname |-> qname, rname |-> rname, flag |-> flag,
     pos |-> pos, wiggle |-> wiggle, correct |-> -1, failed |-> 0]

AlnResult(al, c) == [al EXCEPT !.pc = "set", !.correct = c]
AlnAbort(al, at) == [al EXCEPT !.pc = "abort", !.failed = at]

\* A record on the wrong reference taken for right (a variant of SameRname)
SameRnameAlways(q, i, rname) == TRUE

\* "strncmp(qname_cur, rname, rname_len) == 0"
SameRname(q, i, rname) == StartsWithAt(q, i, rname)

\* One tuple of the name from the cursor i on: reference name, strand sign,
\* offset, score, each followed by sim_sep.  check is FALSE where the code
\* skips the comparisons (the first tuple, for mate 2).  ok tells whether
\* every test passed, next is the cursor behind the last separator
ParseTuple(al, i, check) ==
    LET q == al.qname
        sl == Len(sim_sep)
        i2 == i + Len(al.rname)
        i3 == i2 + sl
        i4 == i3 + 1
        i5 == i4 + sl
        refoff == AtoiFrom(q, i5, 0)
        i6 == NumEnd(q, i5)
        i7 == i6 + sl
        i8 == IF At(q, i7) = "-" THEN i7 + 1 ELSE i7
        i9 == NumEnd(q, i8)
    IN [ok |-> /\ check => SameRname(q, i, al.rname)
               /\ StartsWithAt(q, i2, sim_sep)
               /\ check => At(q, i3) = (IF is_fw(al) THEN "+" ELSE "-")
               /\ StartsWithAt(q, i4, sim_sep)
               /\ check => abs(refoff - (al.pos - 1)) < al.wiggle
               /\ StartsWithAt(q, i6, sim_sep)
               /\ StartsWithAt(q, i9, sim_sep),
        next |-> i9 + sl]

\* The branch for a name that begins with sim_startswith (487-604)
SetCorrectnessSim(al) ==
    LET q == al.qname
        i0 == Len(SIM_STARTSWITH_LITERAL) + 1
        i1 == i0 + Len(sim_sep)
        t1 == ParseTuple(al, i1, mate_flag(al) # "2")
        t2 == ParseTuple(al, t1.next, TRUE)
    IN  IF ~StartsWithAt(q, i0, sim_sep) THEN AlnAbort(al, 492)
        ELSE IF ~t1.ok THEN AlnResult(al, 0)
        ELSE IF At(q, t1.next) = "u"
                /\ (At(q, t1.next + 1) = NUL \/ isspace(At(q, t1.next + 1)))
        THEN AlnResult(al, 1)
        ELSE IF mate_flag(al) = "0" THEN AlnAbort(al, 546)
        ELSE IF mate_flag(al) # "2" THEN AlnResult(al, 1)
        ELSE IF ~t2.ok THEN AlnResult(al, 0)
        ELSE IF At(q, t2.next) \notin {"b", "c", "d"} THEN AlnAbort(al, 602)
        ELSE AlnResult(al, 1)

\* The cursor behind the n-th ':' from i on
RECURSIVE SkipColons(_, _, _)
SkipColons(buf, i, n) ==
    IF n = 0 \/ i > Len(buf) THEN i
    ELSE SkipColons(buf, i + 1, IF buf[i] = ":" THEN n - 1 ELSE n)

\* The branch for another name (605-689): the wgsim-like format
SetCorrectnessWgsim(al) ==
    LET q == al.qname
        nund == Cardinality({ k \in 1..Len(q) : q[k] = "_" })
        ncolon == Cardinality({ k \in 1..Len(q) : q[k] = ":" })
        a1 == 1 + Len(al.rname)
        a2 == a1 + 1
        frag_start == AtoiFrom(q, a2, 0)
        a3 == NumEnd(q, a2)
        a4 == a3 + 1
        frag_end == AtoiFrom(q, a4, 0)
        a5 == NumEnd(q, a4)
        a6 == SkipColons(q, a5 + 1, ncolon)
        a7 == NumEnd(q, a6) + 1
        len1 == AtoiFrom(q, a7, 0)
        a8 == NumEnd(q, a7)
        a9 == a8 + 1
        len2 == AtoiFrom(q, a9, 0)
        a10 == NumEnd(q, a9)
        a11 == a10 + 1
        flip == At(q, a11) = "1"
        mate1 == mate_flag(al) # "2"
        len == IF mate1 THEN len1 ELSE len2
        near(target) == IF abs(al.pos - target) < al.wiggle THEN 1 ELSE 0
    IN  IF ~(nund >= 8 /\ ncolon = 4) THEN AlnResult(al, -1)
        ELSE IF ~StartsWithAt(q, 1, al.rname) THEN AlnResult(al, 0)
        ELSE IF At(q, a1) # "_" THEN AlnResult(al, 0)
        ELSE IF At(q, a3) # "_" THEN AlnResult(al, 0)
        ELSE IF At(q, a5) # "_" THEN AlnResult(al, 0)
        ELSE IF At(q, a8) # "_" THEN AlnResult(al, 0)
        ELSE IF At(q, a10) # "_" THEN AlnResult(al, 0)
        ELSE IF At(q, a11) \notin {"0", "1"} THEN AlnAbort(al, 677)
        ELSE IF (~flip) = mate1 THEN AlnResult(al, near(frag_start))
        ELSE AlnResult(al, near(frag_end - len + 1))

\* set_correctness(wiggle)
SetCorrectnessOf(al) ==
    IF al.correct # -1 THEN AlnAbort(al, 484)
    ELSE IF ~is_aligned(al) THEN AlnAbort(al, 485)
    ELSE IF StartsWithAt(al.qname, 1, SIM_STARTSWITH_LITERAL)
    THEN SetCorrectnessSim(al)
    ELSE SetCorrectnessWgsim(al)

AlnInit ==
    /\ in_fns = <<>>
    /\ mg = IdleMg
    /\ sam = <<>>
    /\ preds = <<>>
    /\ opts = [keep_ztz |-> FALSE, write_orig_mapq |-> FALSE,
               write_precise_mapq |-> FALSE]
    /\ scan = IdleScan
    /\ rw = IdleRw
    /\ fasta = <<>>
    /\ fa = IdleFa
    /\ simread = IdleSim
    /\ lib = IdleLib
    /\ \E qname \in AlnNames, rname \in AlnRnames, flag \in AlnFlags,
          pos \in AlnPositions, wiggle \in 0..MaxWiggle :
          aln = AlnStart(qname, rname, flag, pos, wiggle)

SetCorrectness ==
    /\ aln.pc = "parsed"
    /\ aln' = SetCorrectnessOf(aln)
    /\ UNCHANGED <<in_fns, mg, sam, preds, opts, scan, rw, fasta, fa, simread, lib>>

AlnNext == SetCorrectness
SpecCorrect == AlnInit /\ [][AlnNext]_vars

(***************************************************************************)
(* ReservoirSampledEList (ds.h) and the two places of the scanner that     *)
(* store a template in it (print_unpaired, print_paired_helper).  An item  *)
(* is named by the number of the call that brought it; list_ is the        *)
(* sequence of the items stored, slot j of the code being list_[j + 1].    *)
(* The draw (size_t)(r4_uni_01() * n_) is any index below n_.  by, ret and *)
(* prev tell which call was made last, what add_part1() returned and the   *)
(* list before the call.                                                   *)
(***************************************************************************)
MaxK == 2
MaxAdds == 5

\* ReservoirSampledEList(k); freed records that the buffer of list_ has been
\* deleted while list_ still points to it
ReservoirSampledEList(k) ==
    [pc |-> "reservoir", k_ |-> k, n_ |-> 0, list_ |-> <<>>, freed |-> FALSE,
     calls |-> 0, by |-> "none", ret |-> 0, prev |-> <<>>]

\* A reservoir that never fills up (a variant of HasRoom)
HasRoomAlways(r) == TRUE

\* "if(list_.size() < k_)"
HasRoom(r) == Len(r.list_) < r.k_

\* What a deleted buffer may hold when it is read again: each slot what was
\* last written to it, or something else (-1) once the allocator has reused it
Dangling(r) ==
    IF r.freed
    THEN {[r EXCEPT !.list_ = l] :
             l \in {m \in [1..Len(r.list_) -> {-1} \cup {r.list_[s] : s \in 1..Len(r.list_)}] :
                       \A s \in 1..Len(r.list_) : m[s] \in {-1, r.list_[s]}}}
    ELSE {r}

\* add(t), with j the draw made when the reservoir is full
ResAddCall(r, t, j) ==
    LET r1 == [r EXCEPT !.n_ = r.n_ + 1]
    IN IF HasRoom(r1) THEN [r1 EXCEPT !.list_ = Append(r.list_, t)]
       ELSE IF j < Len(r1.list_) THEN [r1 EXCEPT !.list_[j + 1] = t]
       ELSE r1

\* add_part1(): the object after the call and the value returned; the slot
\* that expand() adds holds nothing yet (0)
add_part1(r, j) ==
    LET r1 == [r EXCEPT !.n_ = r.n_ + 1]
    IN IF HasRoom(r1)
       THEN IF Len(r1.list_) # r1.n_ - 1
            THEN [obj |-> [r1 EXCEPT !.pc = "abort"], ret |-> 0]
            ELSE [obj |-> [r1 EXCEPT !.list_ = Append(r.list_, 0)],
                  ret |-> Len(r.list_)]
       ELSE [obj |-> r1, ret |-> j]

\* "EList<T> list() { return list_; }": the list is returned by value and
\* EList has no copy constructor, so the copy shares the buffer and its
\* destructor deletes it.  Deleting a buffer a second time is undefined: the
\* allocator may stop the program or carry on.
ListCopyDies(r) ==
    IF r.freed
    THEN {[r EXCEPT !.pc = "crashed"], r}
    ELSE {[r EXCEPT !.freed = TRUE]}

\* "size_t off = model->add_part1(); if(off < model->k()) {
\*  model->list().back().init(...); }" of print_unpaired and
\* print_paired_helper, t being the template built from the alignment: the
\* outcomes the statement can have
StoreTemplate(r, t, j) ==
    LET a == add_part1(r, j)
        o == a.obj
    IN IF o.pc = "abort" THEN {o}
       ELSE IF a.ret < o.k_
       THEN IF Len(o.list_) = 0 THEN {[o EXCEPT !.pc = "abort"]}
            ELSE ListCopyDies([o EXCEPT !.list_[Len(o.list_)] = t,
                                        !.ret = a.ret])
       ELSE {[o EXCEPT !.ret = a.ret]}

ResInit ==
    /\ in_fns = <<>>
    /\ mg = IdleMg
    /\ sam = <<>>
    /\ preds = <<>>
    /\ opts = [keep_ztz |-> FALSE, write_orig_mapq |-> FALSE,
               write_precise_mapq |-> FALSE]
    /\ scan = IdleScan
    /\ rw = IdleRw
    /\ fasta = <<>>
    /\ fa = IdleFa
    /\ simread = IdleSim
    /\ aln = IdleAln
    /\ \E k \in 0..MaxK : lib = ReservoirSampledEList(k)

ResAdd ==
    /\ lib.pc = "reservoir"
    /\ lib.calls < MaxAdds
    /\ \E j \in 0..lib.n_ :
          lib' = [ResAddCall(lib, lib.calls + 1, j) EXCEPT
                     !.calls = lib.calls + 1, !.by = "add", !.ret = j,
                     !.prev = lib.list_]
    /\ UNCHANGED <<in_fns, mg, sam, preds, opts, scan, rw, fasta, fa, simread, aln>>

ResStoreTemplate ==
    /\ lib.pc = "reservoir"
    /\ lib.calls < MaxAdds
    /\ \E j \in 0..lib.n_, before \in Dangling(lib) :
          \E o \in StoreTemplate(before, lib.calls + 1, j) :
              lib' = [o EXCEPT !.calls = lib.calls + 1, !.by = "add_part1",
                               !.prev = before.list_]
    /\ UNCHANGED <<in_fns, mg, sam, preds, opts, scan, rw, fasta, fa, simread, aln>>

ResNext == ResAdd \/ ResStoreTemplate
SpecRes == ResInit /\ [][ResNext]_vars

(***************************************************************************)
(* File handles of the merger, the FASTA reader and the rewrite tool: which *)
(* handles are open when the tool's code is left.                           *)
(***************************************************************************)
MaxHFiles == 2

HandleTools == {"merger", "fasta", "rewrite"}

\* The handles a tool opens for n input files
HandlesOf(tool, n) ==
    CASE tool = "merger" -> {<<"in_", i>> : i \in 1..n}
      [] tool = "fasta" -> {<<"fh_", i>> : i \in 1..n}
      [] OTHER -> {<<"osam_fh", 0>>} \cup {<<"fh_sam", i>> : i \in 1..n}
                      \cup {<<"fh_pred", i>> : i \in 1..n}

NoHandle == <<"none", 0>>

\* A run of one tool over n files; bad is the file fopen() cannot open and
\* err the file whose read fails (NoHandle when there is none), i the number
\* of files done with, fh the handles open, exit how the tool's code was
\* left, rewound whether reset() has been called
HandlesStart(tool, n, bad, err) ==
    [pc |-> "handles", tool |-> tool, n |-> n, bad |-> bad, err |-> err,
     i |-> 0, fh |-> {}, at |-> "start", exit |-> "running",
     rewound |-> FALSE]

\* PredictionMerger::PredictionMerger, one turn of its loop: a throw leaves
\* the constructor, and the destructor of an object that was never
\* constructed is not run
MergerCtorStep(h) ==
    LET f == <<"in_", h.i + 1>>
    IN IF h.i = h.n THEN [h EXCEPT !.at = "constructed"]
       ELSE IF h.bad = f THEN [h EXCEPT !.at = "left", !.exit = "open failed"]
       ELSE IF h.err = f
       THEN [h EXCEPT !.fh = h.fh \cup {f}, !.at = "left", !.exit = "read error"]
       ELSE [h EXCEPT !.fh = h.fh \cup {f}, !.i = h.i + 1]

\* PredictionMerger::~PredictionMerger
MergerDtorBody(h) ==
    [h EXCEPT !.fh = h.fh \ {<<"in_", i>> : i \in 1..h.n},
              !.at = "left", !.exit = "normal"]

\* FastaChunkwiseParser::next, "if(foff_ == 0) { fh_ = fopen(...) ... }"
FastaOpenBody(h) ==
    LET f == <<"fh_", h.i + 1>>
    IN IF h.bad = f THEN [h EXCEPT !.at = "thrown", !.exit = "open failed"]
       ELSE [h EXCEPT !.fh = h.fh \cup {f}, !.at = "reading"]

\* FastaChunkwiseParser::next, "if(c == EOF) { ... }" on the first character
\* read by a call
FastaEofBody(h) ==
    LET f == <<"fh_", h.i + 1>>
    IN IF h.err = f THEN [h EXCEPT !.at = "thrown", !.exit = "read error"]
       ELSE [h EXCEPT !.fh = h.fh \ {f}, !.i = h.i + 1,
                      !.at = IF h.i + 1 = h.n THEN "finished" ELSE "start",
                      !.exit = IF h.i + 1 = h.n THEN "normal" ELSE h.exit]

\* FastaChunkwiseParser::reset
FastaResetBody(h) ==
    [h EXCEPT !.fh = {}, !.i = 0, !.at = "start", !.rewound = TRUE]

\* FastaChunkwiseParser::~FastaChunkwiseParser: "delete[] buf_;"
FastaDtorBody(h) == [h EXCEPT !.at = "left"]

\* main of qtip_rewrite: FILEDEC(osam_fn, osam_fh, ...)
RewriteOpenOutBody(h) ==
    IF h.bad = <<"osam_fh", 0>>
    THEN [h EXCEPT !.at = "left", !.exit = "open failed"]
    ELSE [h EXCEPT !.fh = h.fh \cup {<<"osam_fh", 0>>}, !.at = "loop"]

\* main of qtip_rewrite, one turn of "for(size_t i = 0; i < sams.size(); i++)"
\* and the end of main after the last one
RewriteFileBody(h) ==
    LET s == <<"fh_sam", h.i + 1>>
        p == <<"fh_pred", h.i + 1>>
    IN IF h.i = h.n THEN [h EXCEPT !.at = "left", !.exit = "normal"]
       ELSE IF h.bad = s THEN [h EXCEPT !.at = "left", !.exit = "open failed"]
       ELSE IF h.bad = p
       THEN [h EXCEPT !.fh = h.fh \cup {s}, !.at = "left", !.exit = "open failed"]
       ELSE [h EXCEPT !.fh = (h.fh \cup {s, p}) \ {s, p}, !.i = h.i + 1]

HInit ==
    /\ in_fns = <<>>
    /\ mg = IdleMg
    /\ sam = <<>>
    /\ preds = <<>>
    /\ opts = [keep_ztz |-> FALSE, write_orig_mapq |-> FALSE,
               write_precise_mapq |-> FALSE]
    /\ scan = IdleScan
    /\ rw = IdleRw
    /\ fasta = <<>>
    /\ fa = IdleFa
    /\ simread = IdleSim
    /\ aln = IdleAln
    /\ \E tool \in HandleTools, n \in 1..MaxHFiles :
          \E bad \in HandlesOf(tool, n) \cup {NoHandle},
             err \in (HandlesOf(tool, n) \ {<<"osam_fh", 0>>}) \cup {NoHandle} :
              lib = HandlesStart(tool, n, bad, err)

HOthers == UNCHANGED <<in_fns, mg, sam, preds, opts, scan, rw, fasta, fa, simread, aln>>

MergerCtor ==
    /\ lib.pc = "handles" /\ lib.tool = "merger" /\ lib.at = "start"
    /\ lib' = MergerCtorStep(lib)
    /\ HOthers

MergerDtor ==
    /\ lib.pc = "handles" /\ lib.tool = "merger" /\ lib.at = "constructed"
    /\ lib' = MergerDtorBody(lib)
    /\ HOthers

FastaOpen ==
    /\ lib.pc = "handles" /\ lib.tool = "fasta" /\ lib.at = "start"
    /\ lib' = FastaOpenBody(lib)
    /\ HOthers

FastaEof ==
    /\ lib.pc = "handles" /\ lib.tool = "fasta" /\ lib.at = "reading"
    /\ lib' = FastaEofBody(lib)
    /\ HOthers

FastaReset ==
    /\ lib.pc = "handles" /\ lib.tool = "fasta" /\ lib.at = "reading"
    /\ ~lib.rewound
    /\ lib' = FastaResetBody(lib)
    /\ HOthers

FastaDtor ==
    /\ lib.pc = "handles" /\ lib.tool = "fasta"
    /\ lib.at \in {"finished", "thrown"}
    /\ lib' = FastaDtorBody(lib)
    /\ HOthers

RewriteOpenOut ==
    /\ lib.pc = "handles" /\ lib.tool = "rewrite" /\ lib.at = "start"
    /\ lib' = RewriteOpenOutBody(lib)
    /\ HOthers

RewriteFile ==
    /\ lib.pc = "handles" /\ lib.tool = "rewrite" /\ lib.at = "loop"
    /\ lib' = RewriteFileBody(lib)
    /\ HOthers

HNext ==
    \/ MergerCtor \/ MergerDtor
    \/ FastaOpen \/ FastaEof \/ FastaReset \/ FastaDtor
    \/ RewriteOpenOut \/ RewriteFile
SpecHandles == HInit /\ [][HNext]_vars

(***************************************************************************)
(* Edit transcripts (qsim_parse.cpp, Alignment): the CIGAR and the MD:Z    *)
(* field of a record are parsed into lists and turned into the transcript. *)
(* An EList<char> that holds a C string keeps its terminator: <<>> is the  *)
(* empty list, <<NUL>> the empty string.  fail is the line of the          *)
(* assertion or throw that ended the parse, 0 when none did.               *)
(***************************************************************************)
MaxCols == 3     \* columns of an alignment
LongRun == 10    \* a run whose length takes two digits

\* Alignment::clear(), the fields the parse fills
XAlClear ==
    [cigar_ops |-> <<>>, cigar_run |-> <<>>, left_clip |-> 0, right_clip |-> 0,
     cigar_equal_x |-> FALSE, edit_xscript |-> <<>>, mdz_oro |-> <<>>,
     mdz_char |-> <<>>, mdo |-> 0, has_mdz |-> FALSE, fail |-> 0]

XFail(a, at) == [a EXCEPT !.fail = at]

Rep(c, n) == [k \in 1..n |-> c]

\* The characters of a list that holds a C string, up to the terminator
CStr(l) == SubSeq(l, 1, FindFrom(l, 1, {NUL}) - 1)

\* "for(int j = 0; j < crun; j++) edit_xscript.push_back(cop);"
XscriptOp(cop, crun) == Rep(cop, crun)

\* Alignment::cigar_to_edit_xscript
RECURSIVE CigarToXsFrom(_, _)
CigarToXsFrom(a, i) ==
    IF i > Len(a.cigar_run) THEN [a EXCEPT !.edit_xscript = @ \o <<NUL>>]
    ELSE IF a.cigar_ops[i] \in {"M", "P"} THEN XFail(a, 305)
    ELSE CigarToXsFrom(
           [a EXCEPT !.edit_xscript = @ \o XscriptOp(a.cigar_ops[i], a.cigar_run[i])],
           i + 1)

cigar_to_edit_xscript(a) ==
    IF ~a.cigar_equal_x THEN XFail(a, 300)
    ELSE IF a.edit_xscript # <<>> THEN XFail(a, 301)
    ELSE CigarToXsFrom(a, 1)

\* Alignment::parse_cigar, from character i of the CIGAR column
RECURSIVE ParseCigarFrom(_, _, _)
ParseCigarFrom(cigar, i, a) ==
    IF i > Len(cigar)
    THEN IF a.cigar_equal_x THEN cigar_to_edit_xscript(a) ELSE a
    ELSE IF ~IsDigit(cigar[i]) THEN XFail(a, 227)
    ELSE LET e == NumEnd(cigar, i)
             run == AtoiFrom(cigar, i, 0)
             op == At(cigar, e)
         IN IF ~(isalpha(op) \/ op = "=") THEN XFail(a, 234)
            ELSE ParseCigarFrom(cigar, e + 1,
                   [a EXCEPT
                      !.left_clip = IF a.cigar_ops = <<>> /\ op = "S"
                                    THEN run ELSE @,
                      !.right_clip = IF ~(a.cigar_ops = <<>> /\ op = "S")
                                        /\ e >= Len(cigar) /\ op = "S"
                                     THEN run ELSE @,
                      !.cigar_equal_x = @ \/ op \in {"X", "="},
                      !.cigar_ops = Append(@, op),
                      !.cigar_run = Append(@, run)])

parse_cigar(cigar, a) ==
    IF a.cigar_ops # <<>> THEN XFail(a, 221)
    ELSE IF a.cigar_run # <<>> THEN XFail(a, 222)
    ELSE ParseCigarFrom(cigar, 1, a)

\* The first index >= i of buf that holds no letter
RECURSIVE AlphaEnd(_, _)
AlphaEnd(buf, i) == IF isalpha(At(buf, i)) THEN AlphaEnd(buf, i + 1) ELSE i

\* OpRunOffset::init
OpRunOffset(op, run, off) == [op |-> op, run |-> run, off |-> off]

\* Alignment::mdz_to_list, from character i of the MD:Z text; a character
\* that is no digit, no letter and no '^' is reported and never stepped over
\* (fail 293: the loop does not end)
RECURSIVE MdzToListFrom(_, _, _)
MdzToListFrom(mdz, i, a) ==
    IF i > Len(mdz) THEN a
    ELSE IF IsDigit(mdz[i])
    THEN LET e == NumEnd(mdz, i)
             run == AtoiFrom(mdz, i, 0)
         IN MdzToListFrom(mdz, e,
              IF run > 0
              THEN [a EXCEPT !.mdz_oro = Append(@, OpRunOffset(0, run, -1))]
              ELSE a)
    ELSE IF isalpha(mdz[i])
    THEN LET e == AlphaEnd(mdz, i)
         IN MdzToListFrom(mdz, e,
              [a EXCEPT !.mdz_char = @ \o SubSeq(mdz, i, e - 1),
                        !.mdz_oro = Append(@, OpRunOffset(1, e - i, Len(a.mdz_char)))])
    ELSE IF mdz[i] = "^"
    THEN LET e == AlphaEnd(mdz, i + 1)
         IN MdzToListFrom(mdz, e,
              [a EXCEPT !.mdz_char = @ \o SubSeq(mdz, i + 1, e - 1),
                        !.mdz_oro = Append(@, OpRunOffset(2, e - i - 1, Len(a.mdz_char)))])
    ELSE XFail(a, 293)

mdz_to_list(mdz, a) ==
    IF a.mdz_char # <<>> THEN XFail(a, 256)
    ELSE IF a.mdz_oro # <<>> THEN XFail(a, 257)
    ELSE MdzToListFrom(mdz, 1, [a EXCEPT !.has_mdz = TRUE])

min(x, y) == IF x < y THEN x ELSE y

\* A match run that is never shortened (a variant of RunLeftOver)
RunLeftOverWhole(run_m, run_comb) == run_m

\* "mdz_oro[mdo].run -= run_comb;"
RunLeftOver(run_m, run_comb) == run_m - run_comb

\* The while loop of cigar_and_mdz_to_edit_xscript for one M run
RECURSIVE MRunLoop(_, _)
MRunLoop(a, runleft) ==
    IF ~(runleft > 0 /\ a.mdo < Len(a.mdz_oro)) THEN a
    ELSE LET o == a.mdz_oro[a.mdo + 1]
             run_comb == min(runleft, o.run)
         IN IF o.op \notin {0, 1} THEN XFail(a, 335)
            ELSE IF o.op = 1 /\ o.run # run_comb THEN XFail(a, 341)
            ELSE LET a1 == [a EXCEPT !.edit_xscript =
                               @ \o (IF o.op = 0 THEN Rep("=", run_comb)
                                     ELSE Rep("X", o.run))]
                 IN IF run_comb < o.run
                    THEN MRunLoop([a1 EXCEPT !.mdz_oro[a.mdo + 1].run =
                                       RunLeftOver(o.run, run_comb)],
                                  runleft - run_comb)
                    ELSE MRunLoop([a1 EXCEPT !.mdo = a.mdo + 1],
                                  runleft - run_comb)

\* The for loop of cigar_and_mdz_to_edit_xscript from CIGAR run i on
RECURSIVE CigarAndMdzFrom(_, _)
CigarAndMdzFrom(a, i) ==
    IF a.fail # 0 THEN a
    ELSE IF i > Len(a.cigar_run)
    THEN IF a.mdo # Len(a.mdz_oro) THEN XFail(a, 391)
         ELSE [a EXCEPT !.edit_xscript = @ \o <<NUL>>]
    ELSE LET cop == a.cigar_ops[i]
             crun == a.cigar_run[i]
         IN IF cop \in {"X", "="} THEN XFail(a, 326)
            ELSE IF cop = "M" THEN CigarAndMdzFrom(MRunLoop(a, crun), i + 1)
            ELSE IF cop \in {"I", "N", "S"}
            THEN CigarAndMdzFrom([a EXCEPT !.edit_xscript = @ \o Rep(cop, crun)],
                                 i + 1)
            ELSE IF cop = "D"
            THEN IF a.mdo >= Len(a.mdz_oro) THEN XFail(a, 361)
                 ELSE LET o == a.mdz_oro[a.mdo + 1]
                      IN IF o.op # 2 THEN XFail(a, 363)
                         ELSE IF crun # o.run THEN XFail(a, 364)
                         ELSE CigarAndMdzFrom(
                                [a EXCEPT !.mdo = a.mdo + 1,
                                          !.edit_xscript = @ \o Rep("D", o.run)],
                                i + 1)
            ELSE IF cop = "H" THEN CigarAndMdzFrom(a, i + 1)
            ELSE XFail(a, 382)

\* Alignment::cigar_and_mdz_to_edit_xscript
cigar_and_mdz_to_edit_xscript(a) ==
    IF a.cigar_equal_x THEN XFail(a, 319)
    ELSE IF a.edit_xscript # <<>> THEN XFail(a, 320)
    ELSE CigarAndMdzFrom(a, 1)

MDZ == <<"M", "D", ":", "Z", ":">>

\* The while loop of Alignment::parse_extra from the token at index i on;
\* the last token of a line keeps the line's end
RECURSIVE ParseExtraFrom(_, _, _, _)
ParseExtraFrom(extra, i, a, found_ztz) ==
    LET t == strtok(extra, i)
    IN IF a.fail # 0 \/ t.null \/ (a.has_mdz /\ found_ztz)
       THEN [al |-> a, found_ztz |-> found_ztz]
       ELSE ParseExtraFrom(extra, t.next,
              IF StartsWithAt(t.tok, 1, MDZ)
              THEN IF a.has_mdz THEN XFail(a, 198)
                   ELSE mdz_to_list(SubSeq(t.tok, Len(MDZ) + 1, Len(t.tok)), a)
              ELSE a,
              found_ztz \/ StartsWithAt(t.tok, 1, ZTZ))

\* Alignment::parse_extra(extra), cigar being set
parse_extra(extra, a) ==
    LET r == ParseExtraFrom(extra, 1, a, FALSE)
        a1 == IF r.al.fail = 0 /\ r.al.has_mdz /\ ~r.al.cigar_equal_x
              THEN cigar_and_mdz_to_edit_xscript(r.al)
              ELSE r.al
    IN IF a1.fail # 0 THEN a1
       ELSE IF ~r.found_ztz THEN XFail(a1, 212)
       ELSE a1

\* The inputs: an alignment is a row of columns, written as a CIGAR with M
\* or with = and X, and as the MD:Z text a SAM writer derives from it
\* (mismatched base "A", deleted base "C", a number between any two of them)
ColOps == {"=", "X", "I", "D", "N", "S", "H", "P"}
XsExamples == {<<"=", "=", "=", "I", "=", "=">>, <<"=", "=", "X", "=">>}
Alignments ==
    XsExamples \cup
    UNION { { Rep(c[1], r) \o Tail(c) : c \in [1..n -> ColOps], r \in {1, LongRun} } :
            n \in 1..MaxCols }

CigarOp(c, style) == IF style = "M" /\ c \in {"=", "X"} THEN "M" ELSE c

\* The length of the run of columns that starts at column i
RECURSIVE RunEnd(_, _, _)
RunEnd(cols, i, style) ==
    IF i < Len(cols) /\ CigarOp(cols[i + 1], style) = CigarOp(cols[i], style)
    THEN RunEnd(cols, i + 1, style) ELSE i

RECURSIVE CigarOf(_, _, _)
CigarOf(cols, i, style) ==
    IF i > Len(cols) THEN <<>>
    ELSE LET e == RunEnd(cols, i, style)
         IN Itoa(e - i + 1) \o <<CigarOp(cols[i], style)>> \o CigarOf(cols, e + 1, style)

\* MD:Z of the columns from i on, n matches being pending and indel telling
\* whether the column before was a deleted one (its base joins the same run)
RECURSIVE MdzOf(_, _, _, _)
MdzOf(cols, i, n, indel) ==
    IF i > Len(cols) THEN Itoa(n)
    ELSE IF cols[i] = "=" THEN MdzOf(cols, i + 1, n + 1, FALSE)
    ELSE IF cols[i] = "X" THEN Itoa(n) \o <<"A">> \o MdzOf(cols, i + 1, 0, FALSE)
    ELSE IF cols[i] = "D"
    THEN (IF indel THEN <<"C">> ELSE Itoa(n) \o <<"^", "C">>)
           \o MdzOf(cols, i + 1, 0, TRUE)
    ELSE MdzOf(cols, i + 1, n, FALSE)

XsStart(cols, style, with_mdz) ==
    [pc |-> "cigar", cols |-> cols, style |-> style, with_mdz |-> with_mdz,
     cigar |-> CigarOf(cols, 1, style), mdz |-> MdzOf(cols, 1, 0, FALSE),
     extra |-> (IF with_mdz THEN MDZ \o MdzOf(cols, 1, 0, FALSE) \o <<TAB>>
                ELSE <<>>) \o AuxZT \o <<NL>>,
     al |-> XAlClear, rflen |-> 0]

XsInit ==
    /\ in_fns = <<>>
    /\ mg = IdleMg
    /\ sam = <<>>
    /\ preds = <<>>
    /\ opts = [keep_ztz |-> FALSE, write_orig_mapq |-> FALSE,
               write_precise_mapq |-> FALSE]
    /\ scan = IdleScan
    /\ rw = IdleRw
    /\ fasta = <<>>
    /\ fa = IdleFa
    /\ simread = IdleSim
    /\ aln = IdleAln
    /\ \E cols \in Alignments, style \in {"M", "=X"}, with_mdz \in BOOLEAN :
          lib = XsStart(cols, style, with_mdz)

\* parse_from_rname_on: "al.parse_cigar();"
XsParseCigar ==
    /\ lib.pc = "cigar"
    /\ LET a == parse_cigar(lib.cigar, lib.al)
       IN lib' = [lib EXCEPT !.al = a,
                             !.pc = IF a.fail # 0 THEN "abort" ELSE "extra"]
    /\ HOthers

\* print_unpaired, print_paired_helper: "al.parse_extra(extra);"
XsParseExtra ==
    /\ lib.pc = "extra"
    /\ LET a == parse_extra(lib.extra, lib.al)
       IN lib' = [lib EXCEPT !.al = a,
                             !.pc = IF a.fail # 0 THEN "abort" ELSE "parsed"]
    /\ HOthers

\* edit_xscript_to_rflen, from character i of the transcript
RECURSIVE RflenFrom(_, _)
RflenFrom(xs, i) ==
    IF At(xs, i) = NUL THEN 0
    ELSE (IF xs[i] \in {"S", "=", "X", "D"} THEN 1 ELSE 0) + RflenFrom(xs, i + 1)

edit_xscript_to_rflen(edit_xscript) == RflenFrom(edit_xscript, 1)

\* TemplateUnpaired::reflen of the template made from the alignment
XsReflen ==
    /\ lib.pc = "parsed"
    /\ lib.al.edit_xscript # <<>>
    /\ lib' = [lib EXCEPT !.rflen = edit_xscript_to_rflen(CStr(lib.al.edit_xscript)),
                          !.pc = "measured"]
    /\ HOthers

XsNext == XsParseCigar \/ XsParseExtra \/ XsReflen
SpecXscript == XsInit /\ [][XsNext]_vars

(***************************************************************************)
(* Alignment::fragment_length for two mates whose CIGAR is an extended one. *)
(***************************************************************************)
MaxFragCols == 2

FragOps == {"=", "I", "D", "N", "S"}
FragExamples == {<<"S", "=", "=", "S">>, <<"=", "=", "D", "=">>}
FragAlignments ==
    FragExamples \cup UNION { [1..n -> FragOps] : n \in 1..MaxFragCols }
FragPositions == {10, 12}

\* An Alignment after parse_from_rname_on: pos and the parsed CIGAR
FragAl(cols, pos) ==
    [al |-> parse_cigar(CigarOf(cols, 1, "=X"), XAlClear), pos |-> pos]

\* Alignment::lpos
lpos(m) ==
    IF m.al.cigar_ops = <<>> THEN [fail |-> 162, val |-> 0]
    ELSE [fail |-> 0, val |-> m.pos - m.al.left_clip]

\* "while(*xs++ == 'S');": the index xs is left at, one past the first
\* character that is no 'S'
RECURSIVE SkipS(_, _)
SkipS(xs, i) == IF At(xs, i) = "S" THEN SkipS(xs, i + 1) ELSE i + 1

\* "while(*xs != '\0') { if(...) mv++; xs++; }"
RECURSIVE RposCount(_, _)
RposCount(xs, i) ==
    IF At(xs, i) = NUL THEN 0
    ELSE (IF xs[i] \in {"S", "D", "X", "="} THEN 1 ELSE 0) + RposCount(xs, i + 1)

\* Alignment::rpos; a transcript with nothing but 'S' leaves xs behind the
\* terminator, where the buffer holds what an earlier record left there:
\* outside the inputs drawn here (fail 174)
rpos(m) ==
    LET xs == m.al.edit_xscript
        i == SkipS(xs, 1)
    IN IF xs = <<>> THEN [fail |-> 171, val |-> 0]
       ELSE IF i > Len(xs) THEN [fail |-> 174, val |-> 0]
       ELSE IF xs[i] = NUL THEN [fail |-> 175, val |-> 0]
       ELSE [fail |-> 0, val |-> m.pos + RposCount(xs, i) - 1]

\* Alignment::fragment_length
fragment_length(al1, al2) ==
    LET up == IF al1.pos < al2.pos THEN al1 ELSE al2
        dn == IF al1.pos < al2.pos THEN al2 ELSE al1
        r == rpos(dn)
        l == lpos(up)
    IN IF r.fail # 0 THEN r
       ELSE IF l.fail # 0 THEN l
       ELSE [fail |-> 0, val |-> r.val - l.val + 1]

FragInit ==
    /\ in_fns = <<>>
    /\ mg = IdleMg
    /\ sam = <<>>
    /\ preds = <<>>
    /\ opts = [keep_ztz |-> FALSE, write_orig_mapq |-> FALSE,
               write_precise_mapq |-> FALSE]
    /\ scan = IdleScan
    /\ rw = IdleRw
    /\ fasta = <<>>
    /\ fa = IdleFa
    /\ simread = IdleSim
    /\ aln = IdleAln
    /\ \E c1 \in FragAlignments, c2 \in FragAlignments,
          p1 \in FragPositions, p2 \in FragPositions :
          lib = [pc |-> "mates", al1 |-> FragAl(c1, p1), al2 |-> FragAl(c2, p2),
                 cols1 |-> c1, cols2 |-> c2, fraglen |-> 0, fail |-> 0]

\* print_paired_helper: "Alignment::fragment_length(al1, al2)"
FragLength ==
    /\ lib.pc = "mates"
    /\ lib.al1.al.fail = 0 /\ lib.al2.al.fail = 0
    /\ LET f == fragment_length(lib.al1, lib.al2)
       IN lib' = [lib EXCEPT !.fraglen = f.val, !.fail = f.fail,
                             !.pc = IF f.fail # 0 THEN "abort" ELSE "fraglen"]
    /\ HOthers

FragNext == FragLength
SpecFrag == FragInit /\ [][FragNext]_vars

(***************************************************************************)
(* The loop of sam_pass1 and the functions that write the feature rows and *)
(* the templates of a routed record.                                       *)
(***************************************************************************)
\* The locals of sam_pass1 before the loop; rows are the feature rows
\* written, tpaired the paired templates written (mate1 and mate2 are the
\* positions in the SAM file of the records that gave the fields numbered 1
\* and 2), cls the class each record was counted in
ScanStart ==
    [pc |-> "run", pos |-> 0, line1 |-> TRUE, al_cur1 |-> TRUE,
     linebuf |-> <<[text |-> <<>>, src |-> 0], [text |-> <<>>, src |-> 0]>>,
     al |-> <<AlignmentClear, AlignmentClear>>,
     nline |-> 0, nhead |-> 0, nsec |-> 0, npair |-> 0, nunp |-> 0,
     nunp_al |-> 0, nunp_unal |-> 0, npair_badend |-> 0, npair_conc |-> 0,
     npair_disc |-> 0, npair_unal |-> 0, ntyp_mismatch |-> 0,
     rows |-> <<>>, tpaired |-> <<>>, cls |-> <<>>, failed |-> 0]

\* The row print_unpaired or print_paired_helper writes for al: al.line is
\* its first column, the buffer al points into gives the others
FeatureRow(sc, file, al) ==
    [file |-> file, id |-> al.line, text |-> sc.linebuf[al.buf].text,
     src |-> sc.linebuf[al.buf].src]

Abort(sc, at) == [sc EXCEPT !.pc = "abort", !.failed = at]

wiggle == 30

\* The index at which column k of a line starts, counted from column 1 at i
RECURSIVE ColStart(_, _, _)
ColStart(buf, i, k) ==
    IF k = 1 THEN i ELSE ColStart(buf, FindFrom(buf, i, {TAB}) + 1, k - 1)

\* parse_from_rname_on(al): the fields parsed from the line al points into
\* and the text behind the QUAL column; fail is the line of the assertion
\* that failed, 0 when none did
parse_from_rname_on(sc, al) ==
    LET text == sc.linebuf[al.buf].text
        asserts == <<<<3, 740>>, <<4, 741>>, <<5, 743>>, <<6, 746>>,
                     <<7, 748>>, <<8, 749>>, <<10, 752>>, <<11, 754>>>>
        missing == { j \in 1..Len(asserts) : Col(text, asserts[j][1]) = <<NUL>> }
        first == CHOOSE j \in missing : \A m \in missing : j <= m
        a == parse_cigar(Col(text, 6), XAlClear)
    IN [qname |-> Col(text, 1), rname |-> Col(text, 3), flag |-> al.flag,
        pos |-> atoi(Col(text, 4)), al |-> a,
        extra |-> SubSeq(text, ColStart(text, 1, 12), Len(text)),
        fail |-> IF missing # {} THEN asserts[first][2]
                 ELSE IF atoi(Col(text, 5)) >= 256 THEN 745
                 ELSE a.fail]

\* "al.set_correctness(wiggle);": the line of the assertion that failed, 0
\* when none did
SetCorrectnessFail(r) ==
    LET c == SetCorrectnessOf(AlnStart(r.qname, r.rname, r.flag, r.pos, wiggle))
    IN IF c.pc = "abort" THEN c.failed ELSE 0

\* print_unpaired(al, ...) with fh_recs open
print_unpaired(sc, file, al) ==
    LET r == parse_from_rname_on(sc, al)
        c == SetCorrectnessFail(r)
        x == parse_extra(r.extra, r.al)
    IN IF r.fail # 0 THEN Abort(sc, r.fail)
       ELSE IF c # 0 THEN Abort(sc, c)
       ELSE IF x.fail # 0 THEN Abort(sc, x.fail)
       ELSE IF x.edit_xscript = <<>> THEN Abort(sc, 789)
       ELSE [sc EXCEPT !.rows = Append(sc.rows, FeatureRow(sc, file, al))]

\* print_paired(al1, al2, ...) with fh_recs open: the mate with the smaller
\* line comes first
print_paired(sc, file, m1, m2) ==
    LET a == IF m1.line < m2.line THEN m1 ELSE m2
        b == IF m1.line < m2.line THEN m2 ELSE m1
        r1 == parse_from_rname_on(sc, a)
        r2 == parse_from_rname_on(sc, b)
        c1 == SetCorrectnessFail(r1)
        c2 == SetCorrectnessFail(r2)
        x1 == parse_extra(r1.extra, r1.al)
        x2 == parse_extra(r2.extra, r2.al)
        f == fragment_length([al |-> x1, pos |-> r1.pos],
                             [al |-> x2, pos |-> r2.pos])
    IN IF r1.fail # 0 THEN Abort(sc, r1.fail)
       ELSE IF r2.fail # 0 THEN Abort(sc, r2.fail)
       ELSE IF c1 # 0 THEN Abort(sc, c1)
       ELSE IF c2 # 0 THEN Abort(sc, c2)
       ELSE IF x1.fail # 0 THEN Abort(sc, x1.fail)
       ELSE IF x1.edit_xscript = <<>> THEN Abort(sc, 869)
       ELSE IF x2.fail # 0 THEN Abort(sc, x2.fail)
       ELSE IF f.fail # 0 THEN Abort(sc, f.fail)
       ELSE [sc EXCEPT !.rows = sc.rows \o <<FeatureRow(sc, file, a),
                                              FeatureRow(sc, file, b)>>,
                       !.tpaired = Append(sc.tpaired,
                                     [file |-> file,
                                      mate1 |-> sc.linebuf[a.buf].src,
                                      mate2 |-> sc.linebuf[b.buf].src])]

\* The counter that was incremented for the records als, kept per record
Mark(sc, als, class) ==
    [sc EXCEPT !.cls = sc.cls \o [k \in 1..Len(als) |->
                                    [src |-> sc.linebuf[als[k].buf].src,
                                     class |-> class]]]

\* Two ends never mated up (a variant of CanMate)
CanMateNever(cur, prev) == FALSE

\* "if(al_cur.mate_flag() != '0' && al_prev.valid)"
CanMate(cur, prev) == mate_flag(cur) # "0" /\ prev.valid

\* The part of the loop body that routes the current alignment; c and p are
\* the slots (1 or 2) of al_cur and al_prev
Route(sc, c, p) ==
    LET cur == sc.al[c]
        prev == sc.al[p]
        mated == CanMate(cur, prev)
        bad_mates == mated /\ ( \/ mate_flag(cur) = "1" /\ mate_flag(prev) # "2"
                                \/ mate_flag(cur) = "2" /\ mate_flag(prev) # "1" )
        m1slot == IF mate_flag(cur) = "1" THEN c ELSE p
        m2slot == IF mate_flag(cur) = "1" THEN p ELSE c
        s1 == IF mated
              THEN [sc EXCEPT !.al[c].valid = FALSE, !.al[p].valid = FALSE,
                              !.npair = sc.npair + 1]
              ELSE sc
        typ == SimTyp(Col(sc.linebuf[cur.buf].text, 1))
        s2 == [s1 EXCEPT !.al[c].typ = typ]
        acur == s2.al[c]
        mate1 == s2.al[m1slot]
        mate2 == s2.al[m2slot]
    IN  IF bad_mates THEN Abort(sc, IF mate_flag(cur) = "1" THEN 1152 ELSE 1157)
        ELSE IF mate_flag(acur) = "0"
        THEN LET s3 == [s2 EXCEPT !.nunp = s2.nunp + 1]
             IN IF ~is_aligned(acur)
                THEN Mark([s3 EXCEPT !.nunp_unal = s3.nunp_unal + 1],
                          <<acur>>, "unal")
                ELSE IF acur.typ = NoTyp \/ acur.typ[1] = "u"
                THEN print_unpaired(
                       Mark([s3 EXCEPT !.nunp_al = s3.nunp_al + 1], <<acur>>, "u"),
                       "u", acur)
                ELSE Mark([s3 EXCEPT !.ntyp_mismatch = s3.ntyp_mismatch + 1],
                          <<acur>>, "mismatch")
        ELSE IF mated
        THEN IF ~is_aligned(mate1) /\ ~is_aligned(mate2)
             THEN Mark([s2 EXCEPT !.npair_unal = s2.npair_unal + 1],
                       <<mate1, mate2>>, "unal")
             ELSE IF is_aligned(mate1) # is_aligned(mate2)
             THEN LET alm == IF is_aligned(mate1) THEN mate1 ELSE mate2
                  IN IF alm.typ = NoTyp
                        \/ (alm.typ[1] = "b" /\ At(alm.typ, 2) = mate_flag(alm))
                     THEN print_unpaired(
                            Mark([s2 EXCEPT !.npair_badend = s2.npair_badend + 1],
                                 <<mate1, mate2>>, "b"),
                            "b", alm)
                     ELSE Mark([s2 EXCEPT !.ntyp_mismatch = s2.ntyp_mismatch + 1],
                               <<mate1, mate2>>, "mismatch")
             ELSE IF is_concordant(mate1) # is_concordant(mate2)
             THEN Abort(s2, 1242)
             ELSE IF is_concordant(mate1)
             THEN IF mate1.typ = NoTyp \/ mate1.typ[1] = "c"
                  THEN print_paired(
                         Mark([s2 EXCEPT !.npair_conc = s2.npair_conc + 1],
                              <<mate1, mate2>>, "c"),
                         "c", mate1, mate2)
                  ELSE Mark([s2 EXCEPT !.ntyp_mismatch = s2.ntyp_mismatch + 1],
                            <<mate1, mate2>>, "mismatch")
             ELSE IF mate1.typ = NoTyp \/ mate1.typ[1] = "d"
                  THEN print_paired(
                         Mark([s2 EXCEPT !.npair_disc = s2.npair_disc + 1],
                              <<mate1, mate2>>, "d"),
                         "d", mate1, mate2)
                  ELSE Mark([s2 EXCEPT !.ntyp_mismatch = s2.ntyp_mismatch + 1],
                            <<mate1, mate2>>, "mismatch")
        ELSE [s2 EXCEPT !.al[c].valid = TRUE]

\* A secondary record that takes the line buffer with it (a variant of
\* SkipSecondary)
SkipSecondaryToggle(s0) ==
    [s0 EXCEPT !.nsec = s0.nsec + 1, !.line1 = ~s0.line1]

\* "nsec++; continue;" made before line1 is switched
SkipSecondary(s0) == [s0 EXCEPT !.nsec = s0.nsec + 1]

\* One turn of the while loop of sam_pass1, from fgets on
ScanBody(sc, file) ==
    IF sc.pos >= Len(file) THEN [sc EXCEPT !.pc = "done"]
    ELSE
    LET b == IF sc.line1 THEN 1 ELSE 2
        line == file[sc.pos + 1]
        s0 == [sc EXCEPT !.pos = sc.pos + 1,
                         !.linebuf[b] = [text |-> line, src |-> sc.pos + 1],
                         !.nline = ScanNlineAfter(sc.nline, line)]
        qname == strtok(line, 1)
        flag_str == strtok(line, qname.next)
        flag == atoi(flag_str.tok)
        c == IF sc.al_cur1 THEN 1 ELSE 2
        p == IF sc.al_cur1 THEN 2 ELSE 1
    IN  IF IsHeader(line) THEN [s0 EXCEPT !.nhead = sc.nhead + 1]
        ELSE IF qname.null \/ qname.start # 1 THEN Abort(s0, 1126)
        ELSE IF flag_str.null THEN Abort(s0, 1127)
        ELSE IF FlagBit(flag, 2048) THEN SkipSecondary(s0)
        ELSE IF sc.al[c].valid THEN Abort([s0 EXCEPT !.line1 = ~sc.line1], 1138)
        ELSE Route([s0 EXCEPT !.line1 = ~sc.line1,
                              !.al_cur1 = ~sc.al_cur1,
                              !.al[c] = [AlignmentClear EXCEPT
                                           !.buf = b, !.flag = flag,
                                           !.line = s0.nline]],
                   c, p)

ScanInit ==
    /\ in_fns = <<>>
    /\ mg = IdleMg
    /\ sam \in SamFiles(ScanPool)
    /\ preds = <<>>
    /\ opts = [keep_ztz |-> FALSE, write_orig_mapq |-> FALSE,
               write_precise_mapq |-> FALSE]
    /\ scan = ScanStart
    /\ rw = IdleRw
    /\ IdleTools

\* The scanner reads a line, or finds the file ended
ScanLine ==
    /\ scan.pc = "run"
    /\ scan' = ScanBody(scan, sam)
    /\ UNCHANGED <<in_fns, mg, sam, preds, opts, rw>>
    /\ UNCHANGED toolVars

ScanNext == ScanLine

SpecScan == ScanInit /\ [][ScanNext]_vars

(***************************************************************************)
(* The scanner over records whose CIGAR is written with M, with and        *)
(* without an MD:Z field.                                                  *)
(***************************************************************************)
AuxMD(n) == <<"M", "D", ":", "Z", ":">> \o Itoa(n)
\* A record of n bases aligned at pos with the CIGAR nM; md says whether it
\* carries MD:Z
LineM(qname, flag, pos, n, md) ==
    SamRecordAt(qname, flag, pos, <<"9">>, Itoa(n) \o <<"M">>,
                [i \in 1..n |-> "A"], [i \in 1..n |-> "I"],
                (IF md THEN <<AuxMD(n)>> ELSE <<>>) \o <<AuxZT>>)

MdzPool ==
    { LineM(<<"a">>, <<"0">>, <<"7">>, 1, md) : md \in BOOLEAN } \cup
    { LineM(<<"p">>, <<"6", "7">>, <<"7">>, 2, md) : md \in BOOLEAN } \cup
    { LineM(<<"p">>, <<"1", "3", "1">>, <<"7">>, 2, md) : md \in BOOLEAN } \cup
    { LineM(<<"p">>, <<"1", "3", "1">>, <<"9">>, 2, FALSE),
      LineM(<<"b">>, <<"7", "3">>, <<"7">>, 2, FALSE), LineM2u }

MdzInit ==
    /\ in_fns = <<>>
    /\ mg = IdleMg
    /\ sam \in SamFiles(MdzPool)
    /\ preds = <<>>
    /\ opts = [keep_ztz |-> FALSE, write_orig_mapq |-> FALSE,
               write_precise_mapq |-> FALSE]
    /\ scan = ScanStart
    /\ rw = IdleRw
    /\ IdleTools

SpecMdz == MdzInit /\ [][ScanNext]_vars

(***************************************************************************)
(* A run of the parse tool over several SAM inputs (main of                *)
(* qsim_parse.cpp): the feature files are opened once, sam_pass1 is called *)
(* for each input in turn with locals of its own.                          *)
(***************************************************************************)
MaxSams == 2    \* SAM inputs of a run

ParsePool == {LineHeader, LineUnp, LineM1b, LineM2u}

\* The inputs named on the command line
SamInputs == UNION { [1..n -> SamFiles(ParsePool)] : n \in 1..MaxSams }

ParseStart(sams) == [pc |-> "parse", sams |-> sams, i |-> 1]

\* The next turn of "for(size_t i = 0; i < sams.size(); i++)": sam_pass1
\* starts over on the next input and writes to the same feature files
NextSamBody(run, sc) ==
    [run |-> [run EXCEPT !.i = run.i + 1],
     scan |-> [ScanStart EXCEPT !.rows = sc.rows, !.tpaired = sc.tpaired]]

\* The feature files are closed after the last input
CloseBody(run) == [run EXCEPT !.pc = "closed"]

ParseInit ==
    /\ in_fns = <<>>
    /\ mg = IdleMg
    /\ \E sams \in SamInputs : lib = ParseStart(sams) /\ sam = sams[1]
    /\ preds = <<>>
    /\ opts = [keep_ztz |-> FALSE, write_orig_mapq |-> FALSE,
               write_precise_mapq |-> FALSE]
    /\ scan = ScanStart
    /\ rw = IdleRw
    /\ fasta = <<>>
    /\ fa = IdleFa
    /\ simread = IdleSim
    /\ aln = IdleAln

NextSam ==
    /\ lib.pc = "parse" /\ scan.pc = "done" /\ lib.i < Len(lib.sams)
    /\ LET o == NextSamBody(lib, scan)
       IN lib' = o.run /\ scan' = o.scan /\ sam' = o.run.sams[o.run.i]
    /\ UNCHANGED <<in_fns, mg, preds, opts, rw, fasta, fa, simread, aln>>

CloseFeatures ==
    /\ lib.pc = "parse" /\ scan.pc = "done" /\ lib.i = Len(lib.sams)
    /\ lib' = CloseBody(lib)
    /\ UNCHANGED <<in_fns, mg, sam, preds, opts, scan, rw, fasta, fa, simread, aln>>

ParseNext == ScanLine \/ NextSam \/ CloseFeatures

SpecParse == ParseInit /\ [][ParseNext]_vars

(***************************************************************************)
(* A simulated read written by write() or write_pair() and read back by    *)
(* the scanner from the SAM file of an aligner that aligned it where it    *)
(* was drawn, in the class it was drawn for.                               *)
(***************************************************************************)
\* The typ arguments simulate_batch passes to write and write_pair
SimLabels == {<<"u">>, <<"b", "1">>, <<"b", "2">>, <<"c">>, <<"d">>}

\* The read name that write or write_pair prints
WrittenName(rd1, rd2, lab) ==
    IF lab = <<"u">> THEN SimName(rd1, lab) ELSE SimPairName(rd1, rd2, lab)

\* The flags of the records an aligner reports for a read of this label
\* that aligned in the label's class
BackFlags(lab) ==
    CASE lab = <<"u">> -> <<0>>
      [] lab = <<"b", "1">> -> <<73, 133>>
      [] lab = <<"b", "2">> -> <<69, 137>>
      [] lab = <<"c">> -> <<67, 131>>
      [] OTHER -> <<65, 129>>

BackFile(rd1, rd2, lab) ==
    [k \in 1..Len(BackFlags(lab)) |->
        SamRecordAt(WrittenName(rd1, rd2, lab), Itoa(BackFlags(lab)[k]),
                    Itoa((IF k = 1 THEN rd1 ELSE rd2).refoff_ + 1), <<"9">>,
                    <<"2", "=">>, <<"A", "C">>, <<"I", "I">>, <<AuxZT>>)]

RoundStart(rd1, rd2, lab) ==
    [pc |-> "drawn", rd1 |-> rd1, rd2 |-> rd2, lab |-> lab, name |-> <<>>]

RoundInit ==
    /\ in_fns = <<>>
    /\ mg = IdleMg
    /\ sam = <<>>
    /\ preds = <<>>
    /\ opts = [keep_ztz |-> FALSE, write_orig_mapq |-> FALSE,
               write_precise_mapq |-> FALSE]
    /\ scan = IdleScan
    /\ rw = IdleRw
    /\ fasta = <<>>
    /\ fa = IdleFa
    /\ simread = IdleSim
    /\ aln = IdleAln
    /\ \E rd1 \in AlnTruths, rd2 \in AlnTruths, lab \in SimLabels :
          /\ rd1.refid_ = rd2.refid_
          /\ lab = <<"u">> => rd2 = rd1
          /\ lib = RoundStart(rd1, rd2, lab)

\* write(fh, typ) or write_pair(rd1, rd2, fh1, fh2, typ)
RoundWrite ==
    /\ lib.pc = "drawn"
    /\ lib' = [lib EXCEPT !.pc = "written",
                          !.name = WrittenName(lib.rd1, lib.rd2, lib.lab)]
    /\ UNCHANGED <<in_fns, mg, sam, preds, opts, scan, rw, fasta, fa, simread, aln>>

\* The aligner's SAM file is given to sam_pass1
RoundAlign ==
    /\ lib.pc = "written"
    /\ lib' = [lib EXCEPT !.pc = "aligned"]
    /\ sam' = BackFile(lib.rd1, lib.rd2, lib.lab)
    /\ scan' = ScanStart
    /\ UNCHANGED <<in_fns, mg, preds, opts, rw, fasta, fa, simread, aln>>

RoundNext == RoundWrite \/ RoundAlign \/ ScanLine

SpecRound == RoundInit /\ [][RoundNext]_vars

(***************************************************************************)
(***************************************************************************)
(* StreamingSimulator::simulate_batch (simplesim.cpp) over the parser of   *)
(* fasta.cpp.  The four input models are built from the template stores    *)
(* of the scanner, InputModel*(store.list(), ...): ts_ is the list of the  *)
(* templates the store has kept.  lib holds the simulator: at is the place *)
(* the run has come to, tgt the targets nu, nb, nc and nd, samp the number *)
(* of draws of the loop being run and i its counter, nc_samp the part of   *)
(* samp that is concordant, attempts and wrote the counter of the last     *)
(* draw and the number of reads or pairs written by the loop, last the     *)
(* last read or pair written.  fa holds the parser fa_ and the caller's    *)
(* refid, refoff and retsz.  What init() and write() make of a footprint   *)
(* is the subject of the model of SimulatedRead above.  sim_factor is kept *)
(* as the fraction <<numerator, denominator>>.                             *)
(***************************************************************************)
MaxSeen == 2

FUNC_LINEAR == 1
FUNC_SQRT == 2

Classes == {"u", "b", "c", "d"}

Max(a, b) == IF a > b THEN a ELSE b

\* (size_t)sqrt(x)
Isqrt(x) == CHOOSE r \in 0..x : r * r <= x /\ (r + 1) * (r + 1) > x

\* The value without the minimum (a variant of apply_function)
apply_function_no_min(fraction, function, mn, n) ==
    IF n = 0 THEN 0
    ELSE (IF function = FUNC_SQRT
          THEN Isqrt(fraction[1] * fraction[1] * n)
          ELSE fraction[1] * n) \div fraction[2]

\* apply_function(fraction, function, mn, n): (size_t)(fraction * sqrt(n)) is
\* the integer part of sqrt(p * p * n) / q for the fraction p / q
apply_function(fraction, function, mn, n) ==
    IF n = 0 THEN 0
    ELSE Max((IF function = FUNC_SQRT
              THEN Isqrt(fraction[1] * fraction[1] * n)
              ELSE fraction[1] * n) \div fraction[2], mn)

\* The templates the stores hold, in the order they were stored
UnpairedPool ==
    << [edit_xscript_ |-> <<"=">>, mate_flag_ |-> "1"],
       [edit_xscript_ |-> <<"=", "X">>, mate_flag_ |-> "2"] >>
PairedPool ==
    << [edit_xscript_1_ |-> <<"=">>, edit_xscript_2_ |-> <<"=">>,
        fraglen_ |-> 2, upstream1_ |-> TRUE],
       [edit_xscript_1_ |-> <<"X">>, edit_xscript_2_ |-> <<"=", "=">>,
        fraglen_ |-> 2, upstream1_ |-> FALSE] >>
PoolOf(cls) == IF cls \in {"u", "b"} THEN UnpairedPool ELSE PairedPool

\* A store of capacity k that has observed n templates of a class
StoreOf(cls, k, n) ==
    [k_ |-> k, n_ |-> n,
     list_ |-> [j \in 1..Min(n, k) |->
                   PoolOf(cls)[((j - 1) % Len(PoolOf(cls))) + 1]]]

\* ReservoirSampledEList::list()
list(store) == store.list_

\* InputModelUnpaired(ts, ...) and InputModelPaired(ts, ...)
InputModel(ts) == [ts_ |-> ts]

\* num_added() of both input models
num_added(model) == Len(model.ts_)

\* max_len(): fraglen_max_ as the constructors compute it, over the first j
\* templates
RECURSIVE MaxLenUpto(_, _, _)
MaxLenUpto(cls, model, j) ==
    IF j = 0 THEN 0
    ELSE Max(MaxLenUpto(cls, model, j - 1),
             IF cls \in {"u", "b"}
             THEN edit_xscript_to_rflen(model.ts_[j].edit_xscript_)
             ELSE model.ts_[j].fraglen_)

max_len(cls, model) == MaxLenUpto(cls, model, Len(model.ts_))

\* The FASTA files given to the simulator
FaRec5 == [name |-> <<"m">>, rest |-> <<>>, eol |-> <<NL>>,
           lines |-> << <<"N", "n", "N">> >>]
BatchFastas ==
    { <<FaRec4>>, <<FaRec1>>, <<FaRec5, FaRec2>>, <<FaFileEnd, FaRec2>>,
      <<FaRec1, FaFileEnd, FaRec4>> }

BatchFasta(items, olap) ==
    [recs |-> FaSplit(items, <<>>),
     fns |-> [f \in 1..Len(FaSplit(items, <<>>)) |->
                 FaFileText(FaSplit(items, <<>>)[f])],
     chunksz |-> MaxChunk, olap |-> olap]

\* The simulator built by main: the stores, the options of the simulation
\* and the models
BatchStart(stores, fraction, function, mins) ==
    LET models == [c \in Classes |-> InputModel(list(stores[c]))]
    IN [pc |-> "batch", at |-> "start", stores |-> stores, models |-> models,
        fraction |-> fraction, function |-> function, mins |-> mins,
        olap_ |-> Max(max_len("u", models["u"]),
                  Max(max_len("b", models["b"]),
                  Max(max_len("c", models["c"]), max_len("d", models["d"])))),
        tgt |-> [c \in Classes |-> 0], samp |-> 0, nc_samp |-> 0, i |-> 0,
        attempts |-> 0, wrote |-> 0, last |-> <<>>, failed |-> 0]

BatchInit ==
    /\ in_fns = <<>>
    /\ mg = IdleMg
    /\ sam = <<>>
    /\ preds = <<>>
    /\ opts = [keep_ztz |-> FALSE, write_orig_mapq |-> FALSE,
               write_precise_mapq |-> FALSE]
    /\ scan = IdleScan
    /\ rw = IdleRw
    /\ simread = IdleSim
    /\ aln = IdleAln
    /\ \E k \in {1, MaxSeen}, nu \in 0..MaxSeen, nc \in 0..MaxSeen,
          nb \in 0..1, nd \in 0..1, function \in {FUNC_LINEAR, FUNC_SQRT},
          mn \in 0..1 :
          lib = BatchStart([c \in Classes |->
                               StoreOf(c, k, CASE c = "u" -> nu [] c = "b" -> nb
                                                [] c = "c" -> nc [] OTHER -> nd)],
                           <<3, 2>>, function, [c \in Classes |-> mn])
    /\ \E items \in BatchFastas : fasta = BatchFasta(items, lib.olap_)
    /\ fa = FaStart(fasta)

BatchOthers == UNCHANGED <<in_fns, mg, sam, preds, opts, scan, rw, simread, aln>>

BatchFail(b, at) == [b EXCEPT !.at = "abort", !.failed = at]

\* "nu = apply_function(...); ... assert(nu + nb + nc + nd > 0);"
BatchTargets ==
    /\ lib.pc = "batch" /\ lib.at = "start"
    /\ LET tgt == [c \in Classes |->
                      apply_function(lib.fraction, lib.function, lib.mins[c],
                                     num_added(lib.models[c]))]
           b == [lib EXCEPT !.tgt = tgt]
       IN lib' = IF tgt["u"] + tgt["b"] + tgt["c"] + tgt["d"] > 0
                 THEN [b EXCEPT !.at = "next"] ELSE BatchFail(b, 204)
    /\ UNCHANGED <<fasta, fa>>
    /\ BatchOthers

\* hist['N'] of the window
RECURSIVE NCount(_, _)
NCount(buf, n) ==
    IF n = 0 THEN 0 ELSE (IF buf[n] = "N" THEN 1 ELSE 0) + NCount(buf, n - 1)

\* A window of length olap_ skipped too (a variant of SkipsWindow)
SkipsWindowAtOlap(retsz, olap) == retsz <= olap

\* "if(retsz < olap_) { continue; }"
SkipsWindow(retsz, olap) == retsz < olap

\* One turn of the while(true) loop up to the first draw_binomial: what
\* next() returned (ret, with the parser r after the call) is looked at
BatchWindowBody(b, r, fns, samp) ==
    IF r.ret = "hang" THEN [b EXCEPT !.at = "hang"]
    ELSE IF r.ret = "NULL" /\ FaDone(r.o, fns) THEN [b EXCEPT !.at = "done"]
    ELSE IF SkipsWindow(r.retsz, b.olap_) THEN b
    ELSE IF r.ret = "NULL" /\ r.retsz > 0 THEN [b EXCEPT !.at = "undefined"]
    ELSE IF NCount(r.o.buf_, r.retsz) > (9 * r.retsz) \div 10 THEN b
    ELSE [b EXCEPT !.at = "u", !.samp = samp, !.nc_samp = 0, !.i = 0,
                   !.wrote = 0]

\* next() called on a parser that may be done: "if(done()) { return NULL; }"
BatchNextCall(st, fns) ==
    IF FaDone(st.o, fns) THEN [st EXCEPT !.ret = "NULL"] ELSE FaNextCall(st, fns)

BatchWindow ==
    /\ lib.pc = "batch" /\ lib.at = "next"
    /\ LET r == BatchNextCall(fa.st, fasta.fns)
       IN /\ fa' = [fa EXCEPT !.st = r, !.ncall = fa.ncall + 1]
          /\ \E samp \in 0..lib.tgt["u"] :
                lib' = BatchWindowBody(lib, r, fasta.fns, samp)
    /\ UNCHANGED fasta
    /\ BatchOthers

\* buf[j] of the window returned last
BufAt(st, j) == IF j < st.o.chunksz_ THEN st.o.buf_[j + 1] ELSE "?"
Footprint(st, off, rflen) == [j \in 1..rflen |-> BufAt(st, off + j - 1)]

\* A footprint with a base that is not A, C, G or T given up (a variant of
\* FootprintSkips)
FootprintSkipsOnN(foot) == \E j \in 1..Len(foot) : foot[j] \notin Bases

\* "if(b != 'A' && ...) { continue; }" in the for loop over the footprint:
\* the continue goes on with the for loop, the draw is never given up
FootprintSkips(foot) == FALSE

\* The class of draw i of the loop the run is in
DrawClass(b) ==
    CASE b.at = "u" -> "u"
      [] b.at = "b" -> "b"
      [] OTHER -> IF b.i < b.nc_samp THEN "c" ELSE "d"

\* The body of "do { ... } while(false)" for one draw: t is the template
\* drawn, r the draw of r4_uni_01() as the slot it falls in
BatchDrawBody(b, st, t, r) ==
    LET cls == DrawClass(b)
        nslots == st.retsz - b.olap_
        off == IF nslots = 0 THEN 0 ELSE Min(r, nslots - 1)
        b1 == [b EXCEPT !.attempts = 1]
        rflen_1 == IF cls \in {"u", "b"} THEN edit_xscript_to_rflen(t.edit_xscript_)
                   ELSE edit_xscript_to_rflen(t.edit_xscript_1_)
        rflen_2 == IF cls \in {"u", "b"} THEN 0
                   ELSE edit_xscript_to_rflen(t.edit_xscript_2_)
        off_1 == IF cls \in {"u", "b"} THEN off
                 ELSE IF t.upstream1_ THEN off
                 ELSE off + Max(t.fraglen_, rflen_1) - rflen_1
        off_2 == IF cls \in {"u", "b"} THEN off
                 ELSE IF t.upstream1_ THEN off + Max(t.fraglen_, rflen_2) - rflen_2
                 ELSE off
        foot_1 == Footprint(st, off_1, rflen_1)
        foot_2 == Footprint(st, off_2, rflen_2)
        lab == CASE cls = "u" -> "u"
                 [] cls = "b" -> IF t.mate_flag_ = "1" THEN "b1" ELSE "b2"
                 [] OTHER -> cls
    IN  IF cls = "u" /\ ~(nslots > 0) THEN BatchFail(b1, 245)
        ELSE IF ~(off < nslots)
        THEN BatchFail(b1, CASE cls = "u" -> 247 [] cls = "b" -> 284 [] OTHER -> 346)
        ELSE IF FootprintSkips(foot_1) \/ FootprintSkips(foot_2)
        THEN [b1 EXCEPT !.i = b.i + 1]
        ELSE [b1 EXCEPT !.i = b.i + 1, !.wrote = b.wrote + 1,
                        !.last = [lab |-> lab, off_1 |-> off_1, off_2 |-> off_2,
                                  foot_1 |-> foot_1, foot_2 |-> foot_2]]

\* One turn of one of the three for loops over the draws
BatchDraw ==
    /\ lib.pc = "batch" /\ lib.at \in {"u", "b", "cd"}
    /\ lib.i < lib.samp
    /\ LET ts == lib.models[DrawClass(lib)].ts_
       IN IF Len(ts) = 0
          THEN lib' = BatchFail([lib EXCEPT !.attempts = 1],
                                IF DrawClass(lib) \in {"u", "b"} THEN 48 ELSE 119)
          ELSE \E rn \in 1..Len(ts), r \in 0..Max(fa.st.retsz - lib.olap_ - 1, 0) :
                  lib' = BatchDrawBody(lib, fa.st, ts[rn], r)
    /\ UNCHANGED <<fasta, fa>>
    /\ BatchOthers

\* The end of a for loop: the draws of draw_binomial() for the next one, or
\* the next turn of the while(true) loop
BatchLoopEnd ==
    /\ lib.pc = "batch" /\ lib.at \in {"u", "b", "cd"}
    /\ lib.i = lib.samp
    /\ \/ /\ lib.at = "u"
          /\ \E nb_samp \in 0..lib.tgt["b"] :
                lib' = [lib EXCEPT !.at = "b", !.samp = nb_samp, !.i = 0,
                                   !.wrote = 0]
       \/ /\ lib.at = "b"
          /\ \E nc_samp \in 0..lib.tgt["c"], nd_samp \in 0..lib.tgt["d"] :
                lib' = [lib EXCEPT !.at = "cd", !.samp = nc_samp + nd_samp,
                                   !.nc_samp = nc_samp, !.i = 0, !.wrote = 0]
       \/ /\ lib.at = "cd"
          /\ lib' = [lib EXCEPT !.at = "next"]
    /\ UNCHANGED <<fasta, fa>>
    /\ BatchOthers

BatchNext == BatchTargets \/ BatchWindow \/ BatchDraw \/ BatchLoopEnd
SpecBatch == BatchInit /\ [][BatchNext]_vars

\* C31: the target of every class is max(min_class, factor * f(n)) with n
\* the number of templates of the class the store has observed, also when
\* the store has kept fewer than it observed
C31_AsStated ==
    (lib.pc = "batch" /\ lib.at # "start") =>
        \A c \in Classes :
            lib.tgt[c] = apply_function(lib.fraction, lib.function, lib.mins[c],
                                        lib.stores[c].n_)

\* C32: every draw of simulate_batch that is gone through writes exactly one
\* read or pair: the body of the draw is run once, the attempts counter never
\* passes 1, and a footprint with a base other than A, C, G, T is neither
\* tried again nor left out, so that the reads written by a loop are as many
\* as its draws
C32_OneWritePerDraw ==
    lib.pc = "batch" =>
        /\ lib.attempts <= 1
        /\ lib.wrote = lib.i
        /\ (lib.at \in {"u", "b", "cd"} /\ lib.i > 0) =>
               /\ lib.attempts = 1
               /\ Len(lib.last.foot_1) > 0

\* A draw whose footprint holds an N has been written
C32_Witness ==
    /\ lib.pc = "batch" /\ lib.at \in {"u", "b", "cd"}
    /\ lib.i > 0 /\ lib.wrote = lib.i /\ lib.attempts = 1
    /\ \E j \in 1..Len(lib.last.foot_1) : lib.last.foot_1[j] = "N"

\* C36: in every window that is not skipped, retsz - olap_ is positive for
\* every draw and the offset drawn is below it, so none of the assertions
\* on nslots and off fails; a window with retsz = olap_ never comes to a draw
C36_AsStated ==
    lib.pc = "batch" =>
        /\ ~(lib.at = "abort" /\ lib.failed \in {245, 247, 284, 346})
        /\ (lib.at \in {"u", "b", "cd"} /\ lib.i < lib.samp) =>
               fa.st.retsz - lib.olap_ > 0

\* C37: simulate_batch never reads a window through a null pointer: when
\* next() returns NULL and done() is false, the loop calls next() again
\* without reading buf and without using the retsz of the window before
C37_AsStated ==
    lib.pc = "batch" => lib.at # "undefined"

(* The scanner and then the rewriter, run over the same SAM file.          *)
(***************************************************************************)
PipeInit ==
    /\ in_fns = <<>>
    /\ mg = IdleMg
    /\ sam \in SamFiles(RwPool)
    /\ preds \in RwPredInputs
    /\ opts \in { o \in OptPool : o.write_orig_mapq = o.keep_ztz }
    /\ scan = ScanStart
    /\ rw = RwStart
    /\ IdleTools

PipeNext ==
    \/ ScanLine
    \/ scan.pc = "done" /\ RwNextPrediction
    \/ scan.pc = "done" /\ RwSamLine
    \/ scan.pc = "done" /\ RwFinish

SpecPipe == PipeInit /\ [][PipeNext]_vars

(***************************************************************************)
(* Properties of the merger, checked under SpecMerge.                      *)
(***************************************************************************)
RECURSIVE SumLen(_, _)
SumLen(fns, i) == IF i > Len(fns) THEN 0 ELSE Len(fns[i]) + SumLen(fns, i + 1)

AllRecords(fns) == UNION { { fns[i][k] : k \in 1..Len(fns[i]) } : i \in 1..Len(fns) }

AllDone(m) == \A i \in 1..Len(m.done_) : m.done_[i]

\* C1: the valid records returned by successive next() calls have strictly
\* ascending line ordinals.
C1_StrictlyAscending ==
    \A i \in 1..Len(mg.out), j \in 1..Len(mg.out) :
        i < j => mg.out[i].line < mg.out[j].line

\* C1 witness: two files with interleaved lines 0,2 and 1,3, all four returned
C1_Witness ==
    /\ Len(in_fns) = 2
    /\ Len(in_fns[1]) = 2 /\ in_fns[1][1].line = 0 /\ in_fns[1][2].line = 2
    /\ Len(in_fns[2]) = 2 /\ in_fns[2][1].line = 1 /\ in_fns[2][2].line = 3
    /\ Len(mg.out) = 4

\* C2: the valid records returned before the first invalid one are the records
\* of the input files, each exactly once and with its own mapq, so there are
\* as many as the file lengths sum to; with no record at all the first call
\* returns the invalid record.
C2_EveryRecordOnce ==
    mg.calls >= 1 =>
        /\ mg.pc # "abort"
        /\ PredictionValid(mg.ret) <=> mg.calls <= SumLen(in_fns, 1)
        /\ Len(mg.out) = Min(mg.calls, SumLen(in_fns, 1))
        /\ { mg.out[k] : k \in 1..Len(mg.out) } \subseteq AllRecords(in_fns)
        /\ \A i \in 1..Len(mg.out), j \in 1..Len(mg.out) :
              i # j => mg.out[i] # mg.out[j]

\* C2 witness: three files, one of them empty, and the invalid record has just
\* been returned after all three records of the other two
C2_Witness ==
    /\ Len(in_fns) = 3
    /\ \E i \in 1..3 : Len(in_fns[i]) = 0
    /\ SumLen(in_fns, 1) = 3
    /\ mg.calls = 4
    /\ ~PredictionValid(mg.ret)
    /\ Len(mg.out) = 3
    /\ \E i \in 1..3 : mg.out[i].mapq # mg.out[1].mapq

\* C3: once every file is exhausted, a call of next() returns the invalid
\* sentinel, fails no assertion and leaves the merger, and so every file
\* position, as it was.
C3_SentinelForever ==
    [][ (AllDone(mg.obj) /\ mg'.calls = mg.calls + 1) =>
            /\ mg'.ret = PredictionReset
            /\ mg'.pc = "ready"
            /\ mg'.obj = mg.obj
            /\ mg'.out = mg.out ]_vars

\* C3 witness: two calls made after the last of at least two records
C3_Witness ==
    /\ SumLen(in_fns, 1) >= 2
    /\ AllDone(mg.obj)
    /\ mg.calls = SumLen(in_fns, 1) + 2
    /\ mg.ret = PredictionReset

(***************************************************************************)
(* Properties of the rewriter, checked under SpecRewrite.                  *)
(***************************************************************************)
Range(seq) == { seq[k] : k \in 1..Len(seq) }

\* Every prediction of the file the rewriter reads names the position of a
\* line of the SAM file that is no header line
PredsOnRecords ==
    \A k \in 1..Len(preds[1]) :
        /\ preds[1][k].line \in 1..Len(sam)
        /\ ~IsHeader(sam[preds[1][k].line])

OneLine(l) == Len(l) >= 1 /\ l[Len(l)] = NL /\ \A i \in 1..(Len(l) - 1) : l[i] # NL

\* C4: with predictions that name lines of the SAM file that are no header
\* lines, the run fails no assertion; the rewriter writes exactly one line for
\* every line it has read, in the order read, and has read every line when it
\* ends.
C4_OneLineEachInOrder ==
    /\ PredsOnRecords => rw.pc # "abort"
    /\ rw.pc # "abort" =>
          /\ Len(rw.osam) = rw.sam_pos
          /\ rw.osrc = [k \in 1..rw.sam_pos |-> k]
          /\ \A k \in 1..Len(rw.osam) : OneLine(rw.osam[k])
    /\ rw.pc = "done" => rw.sam_pos = Len(sam)

\* C4 witness: a finished run over a header line, a rewritten line and a line
\* passed through
C4_Witness ==
    /\ rw.pc = "done"
    /\ Len(sam) = 3
    /\ IsHeader(sam[1])
    /\ Len(rw.applied) = 1
    /\ ~IsHeader(sam[2]) /\ ~IsHeader(sam[3])

Nearest(mapq) == CHOOSE n \in 0..101 : 10 * n - 5 <= mapq /\ mapq < 10 * n + 5

\* C5: in a finished run, a line whose ordinal has a prediction (L, q) is
\* written with round(q) in column 5 and with columns 1-4 and 6-11 as they
\* were read; a line whose ordinal has no prediction is written as read.
C5_AsStated ==
    rw.pc = "done" =>
        \A k \in 1..Len(sam) :
            IF \E j \in 1..Len(preds[1]) : preds[1][j].line = k
            THEN LET q == (CHOOSE p \in Range(preds[1]) : p.line = k).mapq
                 IN /\ Col(rw.osam[k], 5) = Itoa(Nearest(q))
                    /\ \A c \in {1, 2, 3, 4, 6, 7, 8, 9, 10, 11} :
                          Col(rw.osam[k], c) = Col(sam[k], c)
            ELSE rw.osam[k] = sam[k]

HeadersUnchanged ==
    \A k \in 1..Len(rw.osam) :
        IsHeader(sam[rw.osrc[k]]) => rw.osam[k] = sam[rw.osrc[k]]

\* The number of lines among the first p of a file that are no header lines
RECURSIVE NonHeaderCount(_, _)
NonHeaderCount(file, p) ==
    IF p = 0 THEN 0
    ELSE NonHeaderCount(file, p - 1) + (IF IsHeader(file[p]) THEN 0 ELSE 1)

C9_AsStated ==
    rw.pc = "done" =>
        \A f \in 1..Len(preds) : \A j \in 1..Len(preds[f]) :
            \E a \in Range(rw.applied) :
                a.line = preds[f][j].line /\ a.mapq = preds[f][j].mapq

\* C10: when the SAM file has ended and a prediction that was read is not
\* applied, or predictions remain in the file, the next step of the rewriter
\* is the failure of the assertion made at the end of the SAM file.
C10_AbortAtSamEof ==
    [][ ( /\ rw.pc = "sam"
          /\ rw.sam_pos = Len(sam)
          /\ Len(rw.applied) < rw.pred_pos \/ rw.pred_pos < Len(preds[1]) )
        => (rw'.pc = "abort" /\ rw'.failed = 211 /\ ~rw'.done_with_sam) ]_vars

\* C10 witness: the run ended by that assertion, after one prediction was
\* applied and every line of the SAM file was read
C10_Witness ==
    /\ rw.pc = "abort" /\ rw.failed = 211
    /\ Len(sam) >= 2 /\ rw.sam_pos = Len(sam)
    /\ Len(rw.applied) = 1 /\ rw.pred_pos = 2

(***************************************************************************)
(* Properties of the scanner, checked under SpecScan.                      *)
(***************************************************************************)
IsSecondary(line) == FlagBit(atoi(Col(line, 2)), 2048)

\* The number of lines among the first p of a file that are neither header
\* lines nor secondary records
RECURSIVE RecordCount(_, _)
RecordCount(file, p) ==
    IF p = 0 THEN 0
    ELSE RecordCount(file, p - 1)
         + (IF IsHeader(file[p]) \/ IsSecondary(file[p]) THEN 0 ELSE 1)

C8_IdIsRewriterOrdinal ==
    /\ \A r \in Range(scan.rows) :
          r.src <= Len(rw.ords) => rw.ords[r.src] = r.id
    /\ \A r \in Range(scan.rows) : \A a \in Range(rw.applied) :
          a.line = r.id =>
              /\ a.pos = r.src
              /\ sam[a.pos] = r.text
              /\ \A c \in 1..4 : Col(rw.osam[a.pos], c) = Col(r.text, c)

\* C8 witness: the row of a record that follows a header line and a secondary
\* record, and the prediction with that row's id applied to that record
C8_Witness ==
    /\ Len(sam) = 3 /\ IsHeader(sam[1]) /\ IsSecondary(sam[2])
    /\ \E r \in Range(scan.rows) : \E a \in Range(rw.applied) :
          r.src = 3 /\ a.line = r.id /\ a.pos = 3

(***************************************************************************)
(* Properties of the FASTA parser, checked under SpecFasta.                *)
(***************************************************************************)

\* The record of the input that a window was read from, and its bases as
\* they stand in the file
FaRecOf(w) == fasta.recs[w.file][w.ref]
FaBases(rec) == Flatten(rec.lines)

\* A base upper-cased, and N for what is not A, C, G or T
NormalBase(c) ==
    LET up == CASE c = "a" -> "A" [] c = "c" -> "C" [] c = "g" -> "G"
                [] c = "t" -> "T" [] OTHER -> c
    IN IF up \in {"A", "C", "G", "T"} THEN up ELSE "N"

SameRef(v, w) == v.file = w.file /\ v.ref = w.ref

\* C11: of two windows returned one after the other for the same reference,
\* the later begins chunksz - olap after the earlier, and its first olap
\* bytes are the last olap bytes of the earlier.
C11_WindowsOverlap ==
    \A k \in 1..(Len(fa.wins) - 1) :
        LET v == fa.wins[k]
            w == fa.wins[k + 1]
        IN SameRef(v, w) =>
              /\ w.refoff = v.refoff + (fasta.chunksz - fasta.olap)
              /\ v.retsz >= fasta.olap /\ w.retsz >= fasta.olap
              /\ SubSeq(w.buf, 1, fasta.olap)
                    = SubSeq(v.buf, v.retsz - fasta.olap + 1, v.retsz)

\* C11 witness: with an overlap of two, a second window of a reference that
\* ends before the buffer is full
C11_Witness ==
    /\ fasta.olap >= 1
    /\ \E k \in 1..(Len(fa.wins) - 1) :
          /\ SameRef(fa.wins[k], fa.wins[k + 1])
          /\ fa.wins[k + 1].retsz < fasta.chunksz

\* C12: every window carries the name of the record it was read from, its
\* bytes are the normalized bases of that record from refoff on, and the
\* first window of a record has refoff 0.
C12_WindowContent ==
    \A k \in 1..Len(fa.wins) :
        LET w == fa.wins[k]
        IN /\ w.file \in 1..Len(fasta.recs)
           /\ w.ref \in 1..Len(fasta.recs[w.file])
           /\ w.refid = FaRecOf(w).name
           /\ w.refid_full = FaRecOf(w).name \o FaRecOf(w).rest
           /\ w.retsz >= 1 /\ Len(w.buf) = w.retsz
           /\ w.refoff >= 0
           /\ w.refoff + w.retsz <= Len(FaBases(FaRecOf(w)))
           /\ \A i \in 1..w.retsz :
                 w.buf[i] = NormalBase(FaBases(FaRecOf(w))[w.refoff + i])
           /\ (k = 1 \/ ~SameRef(fa.wins[k - 1], w)) => w.refoff = 0

\* C12 witness: the first window of the second record of a file, read after
\* a window of the first record that left an overlap in the buffer, with a
\* base that is not upper case
C12_Witness ==
    /\ fasta.olap >= 1
    /\ \E k \in 2..Len(fa.wins) :
          /\ fa.wins[k].file = fa.wins[k - 1].file
          /\ fa.wins[k].ref = 2 /\ fa.wins[k - 1].ref = 1
          /\ fa.wins[k - 1].retsz >= fasta.olap
          /\ \E i \in 1..fa.wins[k].retsz :
                FaBases(FaRecOf(fa.wins[k]))[i] \notin {"A", "C", "G", "T"}

\* C13: when the parser is done, every position of every record of every
\* file lies in a window that was returned for that record.
C13_EveryBaseCovered ==
    (fa.pc = "run" /\ FaDone(fa.st.o, fasta.fns)) =>
        \A f \in 1..Len(fasta.recs) : \A r \in 1..Len(fasta.recs[f]) :
            \A p \in 1..Len(FaBases(fasta.recs[f][r])) :
                \E k \in 1..Len(fa.wins) :
                    /\ fa.wins[k].file = f /\ fa.wins[k].ref = r
                    /\ fa.wins[k].refoff < p
                    /\ p <= fa.wins[k].refoff + fa.wins[k].retsz

\* C13 witness: a parser that is done with two files, the first of which
\* ends in a record longer than one window
C13_Witness ==
    /\ fa.pc = "run" /\ FaDone(fa.st.o, fasta.fns)
    /\ Len(fasta.recs) = 2
    /\ Len(fasta.recs[1]) >= 1 /\ Len(fasta.recs[2]) >= 1
    /\ Len(FaBases(fasta.recs[1][Len(fasta.recs[1])])) > fasta.chunksz
    /\ Len(fa.wins) >= 3

(***************************************************************************)
(* Properties of the scanner's pairing, checked under SpecScan.            *)
(***************************************************************************)
FlagOf(line) == atoi(Col(line, 2))
MateOf(line) == mate_flag([flag |-> FlagOf(line)])
IsRecord(line) == ~IsHeader(line) /\ ~IsSecondary(line)
IsMate(line) == IsRecord(line) /\ MateOf(line) # "0"
PairClasses == {"c", "d", "b", "unal"}
\* The assertions of the loop of sam_pass1, by their lines; the other
\* failures are those of the functions that parse a record for its row
PairingAsserts == {1126, 1127, 1138, 1152, 1157, 1242}
ClsOf(p) == { k \in 1..Len(scan.cls) : scan.cls[k].src = p }
ClsCount(class) ==
    Cardinality({ k \in 1..Len(scan.cls) :
                    scan.cls[k].class = class /\ IsMate(sam[scan.cls[k].src]) })

\* The two ends of every pair of a file are successive records that are not
\* secondary, one flagged mate 1 and one mate 2, with the same proper-pair
\* bit when both are aligned; pending is the position of an end whose mate
\* has not come yet
RECURSIVE WellPairedFrom(_, _, _)
WellPairedFrom(file, p, pending) ==
    IF p > Len(file) THEN pending = 0
    ELSE IF ~IsRecord(file[p]) THEN WellPairedFrom(file, p + 1, pending)
    ELSE IF MateOf(file[p]) = "0"
    THEN pending = 0 /\ WellPairedFrom(file, p + 1, 0)
    ELSE IF pending = 0 THEN WellPairedFrom(file, p + 1, p)
    ELSE LET f1 == FlagOf(file[pending])
             f2 == FlagOf(file[p])
         IN /\ MateOf(file[pending]) # MateOf(file[p])
            /\ (~FlagBit(f1, 4) /\ ~FlagBit(f2, 4)) => FlagBit(f1, 2) = FlagBit(f2, 2)
            /\ WellPairedFrom(file, p + 1, 0)
WellPaired(file) == WellPairedFrom(file, 1, 0)

\* C14 as stated: when the scanner has read the whole of any SAM file, every
\* record flagged mate 1 or mate 2 that is not secondary has been counted in
\* exactly one of the classes concordant, discordant, bad-end and unaligned
\* pair.
C14_AsStated ==
    scan.pc = "done" =>
        \A p \in 1..Len(sam) :
            IsMate(sam[p]) =>
                Cardinality({ k \in ClsOf(p) : scan.cls[k].class \in PairClasses }) = 1

\* C14 as amended: no record is counted twice and the counters count the
\* pairs of their class; for a file whose pairs are successive records the
\* scanner fails no assertion of the loop, and when it has read the whole file every
\* mate record has been counted once, in one of the four classes or, for a
\* simulated read whose advertised type is not its class, as a type mismatch.
C14_CountedOnceWhenPaired ==
    /\ \A p \in 1..Len(sam) : Cardinality(ClsOf(p)) <= 1
    /\ 2 * scan.npair_conc = ClsCount("c")
    /\ 2 * scan.npair_disc = ClsCount("d")
    /\ 2 * scan.npair_badend = ClsCount("b")
    /\ 2 * scan.npair_unal = ClsCount("unal")
    /\ (scan.pc = "abort" /\ scan.failed \in PairingAsserts) => ~WellPaired(sam)
    /\ (scan.pc = "done" /\ WellPaired(sam)) =>
          \A p \in 1..Len(sam) :
              IsMate(sam[p]) =>
                  /\ Cardinality(ClsOf(p)) = 1
                  /\ \A k \in ClsOf(p) :
                        scan.cls[k].class \in PairClasses \cup {"mismatch"}

\* C14 witness: a file of three lines read to its end, in which mate 2 of a
\* pair comes before mate 1 and both are counted as discordant
C14_Witness ==
    /\ scan.pc = "done" /\ WellPaired(sam)
    /\ Len(sam) = 3
    /\ IsMate(sam[2]) /\ MateOf(sam[2]) = "2"
    /\ IsMate(sam[3]) /\ MateOf(sam[3]) = "1"
    /\ \E j \in ClsOf(2) : scan.cls[j].class = "d"
    /\ \E k \in ClsOf(3) : scan.cls[k].class = "d"

C16_SecondaryKeepsPairing ==
    /\ [][ ( /\ scan.pc = "run"
             /\ scan.pos < Len(sam)
             /\ ~IsRecord(sam[scan.pos + 1]) /\ ~IsHeader(sam[scan.pos + 1]) )
           => ( /\ scan'.pc = "run"
                /\ scan'.nsec = scan.nsec + 1
                /\ scan'.al = scan.al
                /\ scan'.al_cur1 = scan.al_cur1
                /\ scan'.line1 = scan.line1
                /\ scan'.rows = scan.rows /\ scan'.cls = scan.cls
                /\ scan'.npair = scan.npair
                /\ LET prev == scan.al[IF scan.al_cur1 THEN 2 ELSE 1]
                   IN prev.valid =>
                         scan'.linebuf[prev.buf] = scan.linebuf[prev.buf] )
         ]_vars
    /\ [][ ( /\ scan.pc = "run"
             /\ scan.pos < Len(sam)
             /\ IsMate(sam[scan.pos + 1])
             /\ LET prev == scan.al[IF scan.al_cur1 THEN 2 ELSE 1]
                IN /\ prev.valid
                   /\ {mate_flag(prev), MateOf(sam[scan.pos + 1])} = {"1", "2"} )
           => ( /\ scan'.npair = scan.npair + 1
                /\ ~scan'.al[1].valid /\ ~scan'.al[2].valid
                /\ scan'.failed \in {0, 1242} )
         ]_vars

\* C16 witness: a secondary record between the two mates of a pair, and the
\* pair's rows written from the text of lines 1 and 3
C16_Witness ==
    /\ Len(sam) = 3 /\ scan.pos = 3
    /\ IsMate(sam[1]) /\ IsSecondary(sam[2]) /\ IsMate(sam[3])
    /\ scan.tpaired = <<[file |-> "c", mate1 |-> 1, mate2 |-> 3]>>
    /\ Len(scan.rows) = 2
    /\ scan.rows[1].text = sam[1] /\ scan.rows[1].id = 1
    /\ scan.rows[2].text = sam[3] /\ scan.rows[2].id = 3

\* The records the scanner has routed, by the classes of lines 1178-1278:
\* Advertised(p) is the type in the read name of line p, Partner(k) the
\* position of the other end of the pair counted in entry k of scan.cls (0
\* for an unpaired record)
Advertised(p) ==
    LET n == Col(sam[p], 1)
        k == Len(SIM_STARTSWITH_LITERAL)
    IN IF Len(n) >= k /\ SubSeq(n, 1, k) = SIM_STARTSWITH_LITERAL
       THEN LET i == CHOOSE i \in 1..Len(n) :
                       n[i] = "!" /\ \A j \in (i + 1)..Len(n) : n[j] # "!"
            IN SubSeq(n, i + 1, Len(n))
       ELSE NoTyp
Aligned(p) == ~FlagBit(FlagOf(sam[p]), 4)
EmittedIn(p, file) ==
    \E j \in 1..Len(scan.rows) : scan.rows[j].src = p /\ scan.rows[j].file = file
EmittedAny(p) == \E j \in 1..Len(scan.rows) : scan.rows[j].src = p
Partner(k) ==
    LET m == MateOf(sam[scan.cls[k].src])
    IN IF m = "0" THEN 0
       ELSE scan.cls[IF m = "1" THEN k + 1 ELSE k - 1].src
RoutedClass(p, q) ==
    IF q = 0 THEN IF Aligned(p) THEN "u" ELSE "unal"
    ELSE IF ~Aligned(p) /\ ~Aligned(q) THEN "unal"
    ELSE IF Aligned(p) # Aligned(q) THEN "b"
    ELSE IF FlagBit(FlagOf(sam[IF MateOf(sam[p]) = "1" THEN p ELSE q]), 2)
    THEN "c" ELSE "d"
\* The aligned end of a bad-end pair
AlignedEnd(p, q) == IF q = 0 \/ Aligned(p) THEN p ELSE q
\* The record whose name the scanner tests: the record itself when unpaired,
\* the aligned end of a bad-end pair, mate 1 of another pair
Tested(p, q) ==
    IF q = 0 THEN p
    ELSE IF Aligned(p) # Aligned(q) THEN AlignedEnd(p, q)
    ELSE IF MateOf(sam[p]) = "1" THEN p ELSE q
TypeMatches(class, typ, mate) ==
    \/ class = "u" /\ At(typ, 1) = "u"
    \/ class = "b" /\ At(typ, 1) = "b" /\ At(typ, 2) = mate
    \/ class = "c" /\ At(typ, 1) = "c"
    \/ class = "d" /\ At(typ, 1) = "d"
\* The scanner stopped in the function that writes the rows of the record
\* counted k-th (the last record or pair counted)
PrintFailed(k) ==
    /\ scan.pc = "abort"
    /\ scan.failed \notin PairingAsserts
    /\ k >= Len(scan.cls) - (IF Partner(Len(scan.cls)) = 0 THEN 0 ELSE 1)
MismatchesCounted ==
    Cardinality({ k \in 1..Len(scan.cls) :
                    /\ scan.cls[k].class = "mismatch"
                    /\ MateOf(sam[scan.cls[k].src]) # "2" })

CountIn(xs, n, ops) == Cardinality({ j \in 1..n : xs[j] \in ops })
\* The position in the read and in the reference that character i of a
\* transcript stands for: insertions take no reference position, deletions
\* no read position
ReadIdx(xs, i) == CountIn(xs, i, {"=", "X", "I", "S"})
RefIdx(xs, i) == CountIn(xs, i - 1, {"=", "X", "D", "S"}) + 1
XsFitsQual(rd) ==
    /\ \A i \in 1..Len(rd.edit_xscript_) :
          rd.edit_xscript_[i] \in {"=", "X", "I", "D", "S"}
    /\ ReadIdx(rd.edit_xscript_, Len(rd.edit_xscript_)) = Len(rd.qual_)
XsFitsRef(rd) ==
    \A i \in 1..Len(rd.edit_xscript_) :
        rd.edit_xscript_[i] \in {"=", "X"} =>
            /\ RefIdx(rd.edit_xscript_, i) <= Len(rd.seq)
            /\ isalpha(rd.seq[RefIdx(rd.edit_xscript_, i)])
MutatedAsTranscript(rd) ==
    LET xs == rd.edit_xscript_
    IN /\ rd.pc \notin {"abort", "throw"}
       /\ rd.pc \in {"mutated", "written"} =>
             /\ Len(rd.seq_buf) = Len(rd.qual_)
             /\ rd.rdoff = ReadIdx(xs, Len(xs))
             /\ rd.rfoff = RefIdx(xs, Len(xs) + 1) - 1
             /\ \A i \in 1..Len(xs) :
                   /\ xs[i] = "=" =>
                         At(rd.seq_buf, ReadIdx(xs, i)) = At(rd.seq, RefIdx(xs, i))
                   /\ xs[i] = "X" =>
                         /\ At(rd.seq_buf, ReadIdx(xs, i)) \in Bases
                         /\ At(rd.seq_buf, ReadIdx(xs, i)) # At(rd.seq, RefIdx(xs, i))
                   /\ xs[i] \in {"I", "S"} =>
                         At(rd.seq_buf, ReadIdx(xs, i)) \in Bases

\* C18 as stated: for any reference text, and any quality string and
\* transcript over =, X, I, D, S whose =, X, I, S characters number |qual|,
\* mutate() fails no assertion and leaves a read of |qual| characters that
\* has the reference base at every '=', another base at every 'X', with
\* insertions taking no reference position and deletions no read position.
C18_AsStated ==
    (simread.pc # "idle" /\ XsFitsQual(simread)) => MutatedAsTranscript(simread)

\* C18 as amended: the same, for a reference text that has a letter at
\* every position an '=' or an 'X' of the transcript stands for.
C18_MutateWithinRef ==
    (simread.pc # "idle" /\ XsFitsQual(simread) /\ XsFitsRef(simread))
        => MutatedAsTranscript(simread)

\* C18 witness: a read mutated through a mismatch, an insertion and a
\* deletion
C18_Witness ==
    /\ simread.pc = "mutated"
    /\ XsFitsQual(simread) /\ XsFitsRef(simread)
    /\ simread.edit_xscript_ = <<"I", "D", "X">>
    /\ simread.seq = <<"A", "C", "G", "T">>
    /\ simread.seq_buf[2] # "C"

Reversed(s) == [k \in 1..Len(s) |-> s[Len(s) - k + 1]]
\* The complementary base
Complement(c) ==
    CASE c = "A" -> "T" [] c = "T" -> "A" [] c = "C" -> "G" [] c = "G" -> "C"
      [] OTHER -> c
ReverseComplement(s) == [k \in 1..Len(s) |-> Complement(s[Len(s) - k + 1])]
\* The character after the second separator of a read name
StrandSign(name) ==
    LET p == CHOOSE p \in 1..Len(name) :
                 /\ name[p] = sim_sep[1]
                 /\ Cardinality({ j \in 1..(p - 1) : name[j] = sim_sep[1] }) = 1
    IN name[p + 1]

\* C19: the record write() has written holds the mutated sequence and the
\* quality string as they are when fw is true, the reverse complement of
\* the sequence and the reversed quality string when fw is false, and the
\* strand sign of its read name is '+' exactly when fw is true.
C19_WriteStrand ==
    simread.pc = "written" =>
        /\ Len(simread.out) = 4
        /\ simread.out[1][1] = "@" /\ simread.out[3] = <<"+">>
        /\ simread.out[2] = IF simread.fw_ THEN simread.seq_buf
                            ELSE ReverseComplement(simread.seq_buf)
        /\ simread.out[4] = IF simread.fw_ THEN simread.qual_
                            ELSE Reversed(simread.qual_)
        /\ StrandSign(simread.out[1]) \in {"+", "-"}
        /\ StrandSign(simread.out[1]) = "+" <=> simread.fw_

\* C19 witness: a read of three bases written from the reverse strand, whose
\* sequence and quality lines differ from the stored ones
C19_Witness ==
    /\ simread.pc = "written" /\ ~simread.fw_
    /\ simread.seq_buf = <<"A", "C", "G">>
    /\ simread.out[2] = <<"C", "G", "T">>
    /\ simread.out[4] = <<"C", "D", "E">>
    /\ StrandSign(simread.out[1]) = "-"

(***************************************************************************)
(* Properties of set_correctness, checked under SpecCorrect.               *)
(***************************************************************************)
\* The fields of a read name between its separators
RECURSIVE SplitAt(_, _, _)
SplitAt(s, i, cur) ==
    IF i > Len(s) THEN <<cur>>
    ELSE IF s[i] = sim_sep[1] THEN <<cur>> \o SplitAt(s, i + 1, <<>>)
    ELSE SplitAt(s, i + 1, Append(cur, s[i]))
NameFields(al) == SplitAt(al.qname, 1, <<>>)
\* The name is one the simulator writes for a record of this kind: one
\* tuple and the type u for an unpaired record, two tuples on one reference
\* and a type b, c or d for a mate
FollowsEncoding(al) ==
    LET f == NameFields(al)
    IN /\ f[1] = SIM_STARTSWITH_LITERAL
       /\ IF mate_flag(al) = "0"
          THEN Len(f) = 6 /\ f[6] = <<"u">>
          ELSE Len(f) = 10 /\ f[10][1] \in {"b", "c", "d"} /\ f[2] = f[6]
\* The tuple of the record's own mate: reference name, strand sign, offset
OwnTuple(al) ==
    LET f == NameFields(al)
        b == IF mate_flag(al) = "2" THEN 6 ELSE 2
    IN [refid |-> f[b], sign |-> f[b + 1], T |-> atoi(f[b + 2])]
Near(al) ==
    LET d == OwnTuple(al).T - (al.pos - 1)
    IN (IF d < 0 THEN 0 - d ELSE d) < al.wiggle
StrandMatches(al) == OwnTuple(al).sign = <<IF FlagBit(al.flag, 16) THEN "-" ELSE "+">>

\* C20 as stated: for an aligned record whose name follows the simulator
\* encoding, set_correctness sets correct to 1 if the offset T of the
\* record's own tuple has |T - (pos - 1)| < wiggle and the tuple's strand
\* sign is the record's strand, and to 0 otherwise.
C20_AsStated ==
    (aln.pc \in {"set", "abort"} /\ FollowsEncoding(aln)) =>
        /\ aln.pc = "set"
        /\ aln.correct = IF Near(aln) /\ StrandMatches(aln) THEN 1 ELSE 0

\* C20 as amended: correct is 1 if moreover the reference name of the own
\* tuple is the record's rname, and 0 otherwise.
C20_CorrectOnSameReference ==
    (aln.pc \in {"set", "abort"} /\ FollowsEncoding(aln)) =>
        /\ aln.pc = "set"
        /\ aln.correct = IF /\ OwnTuple(aln).refid = aln.rname
                            /\ Near(aln) /\ StrandMatches(aln)
                         THEN 1 ELSE 0

\* C20 witness: a mate 2 on the reverse strand found correct from the second
\* tuple of its name, while the first tuple has another strand and an offset
\* out of reach
C20_Witness ==
    /\ aln.pc = "set" /\ aln.correct = 1
    /\ FollowsEncoding(aln)
    /\ aln.flag = 147 /\ aln.pos = 10 /\ aln.wiggle = 1
    /\ NameFields(aln)[3] = <<"+">> /\ NameFields(aln)[4] = <<"7">>
    /\ OwnTuple(aln) = [refid |-> aln.rname, sign |-> <<"-">>, T |-> 9]

(***************************************************************************)
(* Properties of the reservoir, checked under SpecRes.                     *)
(***************************************************************************)
\* C21: after any calls of add() and add_part1() the reservoir holds
\* min(n_, k_) items and n_ is the number of calls made, whether the items
\* were kept or not; no assertion of add_part1() fails.
C21_SizeIsMin ==
    /\ lib.pc # "abort"
    /\ lib.pc = "reservoir" =>
        /\ Len(lib.list_) = IF lib.n_ < lib.k_ THEN lib.n_ ELSE lib.k_
        /\ lib.n_ = lib.calls

\* C21 witness: a reservoir of capacity 2 after four calls, the last an
\* add_part1() whose item was not kept
C21_Witness ==
    /\ lib.pc = "reservoir" /\ lib.k_ = 2
    /\ lib.n_ = 4 /\ Len(lib.list_) = 2
    /\ lib.by = "add_part1" /\ lib.ret >= lib.k_
    /\ lib.list_ = lib.prev

\* C22: when add_part1() was called on a full reservoir and returned j < k_,
\* slot j holds the new template and every other slot is as before; when it
\* returned a value >= k_ no slot has changed.
C22_AsStated ==
    (lib.pc = "reservoir" /\ lib.by = "add_part1" /\ Len(lib.prev) = lib.k_) =>
        IF lib.ret < lib.k_
        THEN /\ lib.list_[lib.ret + 1] = lib.calls
             /\ \A s \in 1..lib.k_ : s # lib.ret + 1 => lib.list_[s] = lib.prev[s]
        ELSE lib.list_ = lib.prev

(***************************************************************************)
(* Properties of the file handles, checked under SpecHandles.              *)
(***************************************************************************)
\* C23: whenever the code of the merger, the FASTA reader or the rewrite tool
\* has been left - normally, after a file could not be opened, or after a
\* fatal read error - every handle it opened has been closed.
C23_AsStated ==
    (lib.pc = "handles" /\ lib.at = "left") => lib.fh = {}

(***************************************************************************)
(* Properties of the edit transcripts, checked under SpecXscript.          *)
(***************************************************************************)
\* The columns of an alignment that a transcript keeps: all but hard clips
Kept(cols) == SelectSeq(cols, LAMBDA c : c # "H")

\* The record has a CIGAR written with M and an MD:Z field, and no padding
MdzCase ==
    /\ lib.pc \in {"parsed", "measured", "abort"}
    /\ lib.style = "M" /\ lib.with_mdz
    /\ \A i \in 1..Len(lib.cols) : lib.cols[i] # "P"

\* C24: for a CIGAR without '=' and 'X' and the MD:Z text that goes with it,
\* cigar_and_mdz_to_edit_xscript returns, the transcript is the alignment
\* column by column ('=' and 'X' for the columns of every M run as MD:Z
\* tells, I, D, N, S as they are, H left out), and every MD:Z run has been
\* consumed.
C24_TranscriptFromMdz ==
    MdzCase =>
        /\ lib.pc # "abort"
        /\ lib.al.edit_xscript = Kept(lib.cols) \o <<NUL>>
        /\ lib.al.mdo = Len(lib.al.mdz_oro)

\* C24 witness: 3M1I2M with MD:Z 5 has given ===I==, the one match run of
\* MD:Z having been used by both M runs
C24_Witness ==
    /\ lib.pc = "parsed"
    /\ lib.cigar = <<"3", "M", "1", "I", "2", "M">>
    /\ lib.mdz = <<"5">> /\ lib.with_mdz
    /\ CStr(lib.al.edit_xscript) = <<"=", "=", "=", "I", "=", "=">>
    /\ Len(lib.al.mdz_oro) = 1 /\ lib.al.mdo = 1

\* C28: every transcript built, by cigar_to_edit_xscript or by
\* cigar_and_mdz_to_edit_xscript, holds only the characters = X I D S N.
C28_AsStated ==
    (lib.pc \in {"parsed", "measured"} /\ lib.al.edit_xscript # <<>>) =>
        \A i \in 1..Len(CStr(lib.al.edit_xscript)) :
            lib.al.edit_xscript[i] \in {"=", "X", "I", "D", "S", "N"}

\* C29: the reference length of a transcript is the number of its
\* characters in = X D S N.
C29_AsStated ==
    lib.pc = "measured" =>
        lib.rflen = Cardinality({ i \in 1..Len(CStr(lib.al.edit_xscript)) :
                        lib.al.edit_xscript[i] \in {"=", "X", "D", "S", "N"} })

(***************************************************************************)
(* Properties of the fragment length, checked under SpecFrag.              *)
(***************************************************************************)
\* The number of columns of an alignment that are one of ops
NumCols(cols, ops) == Cardinality({ i \in 1..Len(cols) : cols[i] \in ops })

\* The number of 'S' columns an alignment begins with
RECURSIVE LeadingS(_, _)
LeadingS(cols, i) ==
    IF i <= Len(cols) /\ cols[i] = "S" THEN 1 + LeadingS(cols, i + 1) ELSE 0

\* C30: fragment_length returns rpos(downstream) - lpos(upstream) + 1 with
\* lpos = pos - left_clip and rpos = pos + (number of = X D S characters of
\* the transcript) - 1.
C30_AsStated ==
    lib.pc \in {"fraglen", "abort"} =>
        LET first == lib.al1.pos < lib.al2.pos
            up == IF first THEN lib.al1 ELSE lib.al2
            upc == IF first THEN lib.cols1 ELSE lib.cols2
            dn == IF first THEN lib.al2 ELSE lib.al1
            dnc == IF first THEN lib.cols2 ELSE lib.cols1
        IN (NumCols(dnc, {"=", "X"}) > 0) =>
              /\ lib.pc = "fraglen"
              /\ lib.fraglen = (dn.pos + NumCols(dnc, {"=", "X", "D", "S"}) - 1)
                                 - (up.pos - LeadingS(upc, 1)) + 1

(***************************************************************************)
(* Properties of the names of mated records, checked under SpecScan.       *)
(***************************************************************************)
\* C27: two successive non-secondary records are linked into a pair only
\* when they carry the same qname and one is mate 1 and the other mate 2.
C27_AsStated ==
    \A k \in 1..Len(scan.cls) :
        Partner(k) # 0 =>
            /\ Col(sam[scan.cls[k].src], 1) = Col(sam[Partner(k)], 1)
            /\ {MateOf(sam[scan.cls[k].src]), MateOf(sam[Partner(k)])} = {"1", "2"}

(***************************************************************************)
(* Properties of records without a transcript, checked under SpecMdz.      *)
(***************************************************************************)
\* The record has neither = or X in its CIGAR nor an MD:Z field
NoTranscript(line) ==
    /\ \A i \in 1..Len(Col(line, 6)) : Col(line, 6)[i] \notin {"=", "X"}
    /\ \A i \in 1..Len(line) :
          ~(line[i] = TAB /\ StartsWithAt(line, i + 1, MDZ))

\* C25: for every aligned record routed to a class (unpaired, bad-end, or
\* either mate of a concordant or discordant pair), if the record has
\* neither an extended CIGAR nor an MD:Z field, the scan ends with a fatal
\* error and no template or feature row is emitted for the record.
C25_AsStated ==
    \A k \in 1..Len(scan.cls) :
        LET p == scan.cls[k].src
        IN (scan.cls[k].class \in {"u", "b", "c", "d"} /\ Aligned(p)
            /\ NoTranscript(sam[p])) =>
              /\ scan.pc = "abort"
              /\ ~EmittedAny(p)
              /\ \A t \in Range(scan.tpaired) : p \notin {t.mate1, t.mate2}

(***************************************************************************)
(* Properties of the ids of a whole run, checked under SpecParse.          *)
(***************************************************************************)
\* The ids written to a feature file, in the order of its rows
RowIds(file) ==
    LET RECURSIVE Ids(_)
        Ids(j) == IF j > Len(scan.rows) THEN <<>>
                  ELSE IF scan.rows[j].file = file
                  THEN <<scan.rows[j].id>> \o Ids(j + 1)
                  ELSE Ids(j + 1)
    IN Ids(1)

\* C26: across a whole run of the parse tool, with one or several SAM
\* inputs, the ids written to each feature file are strictly ascending from
\* row to row and no id is written to two different class files.
C26_AsStated ==
    /\ \A f \in {"u", "b", "c", "d"} :
          \A j \in 1..(Len(RowIds(f)) - 1) : RowIds(f)[j] < RowIds(f)[j + 1]
    /\ \A r1, r2 \in Range(scan.rows) : r1.id = r2.id => r1.file = r2.file

(***************************************************************************)
(* Properties of the merger's memory of the next file, checked under       *)
(* SpecMerge.                                                              *)
(***************************************************************************)
\* The file that holds the record with this line
FileWith(line) ==
    CHOOSE f \in 1..Len(in_fns) : \E k \in 1..Len(in_fns[f]) : in_fns[f][k].line = line

\* C35: after next() returns file f's record with line L, next_ is f exactly
\* when f's new head has line L+1, and otherwise (f exhausted, or a head that
\* is not L+1) next_ is -1.
C35_AsStated ==
    (mg.pc = "ready" /\ mg.calls >= 1 /\ PredictionValid(mg.ret)) =>
        LET f == FileWith(mg.ret.line)
            follows == /\ ~mg.obj.done_[f]
                       /\ mg.obj.preds_[f].line = mg.ret.line + 1
        IN mg.obj.next_ = IF follows THEN f - 1 ELSE -1

(***************************************************************************)
(* Properties of the merger over unfinished records, checked under         *)
(* SpecShort.                                                              *)
(***************************************************************************)
\* File f ends in the middle of a record
EndsShort(f) ==
    Len(in_fns[f]) > 0 /\ RecBytes(in_fns[f][Len(in_fns[f])]) < 16

\* C34: when a prediction file ends in the middle of a 16-byte record (after
\* 1 to 15 bytes of the record), the merger raises a fatal error instead of
\* treating the file as cleanly ended.
C34_AsStated ==
    \A f \in 1..Len(in_fns) :
        (EndsShort(f) /\ mg.obj.pos[f] = Len(in_fns[f])) =>
            /\ mg.pc = "thrown"
            /\ ~mg.obj.done_[f]

(***************************************************************************)
(* Properties of a run over several pairs, checked under SpecRewriteMany.  *)
(***************************************************************************)
\* The lines of a prediction file ascend strictly
Ascending(pred) ==
    \A j \in 1..(Len(pred) - 1) : pred[j].line < pred[j + 1].line

\* C39: whether a prediction file passes the strictly-ascending-line check
\* depends only on that file's own records: a file whose lines ascend
\* strictly is accepted, whatever the last line of the previous pair's file.
C39_AsStated ==
    Ascending(preds[1]) => ~(rw.pc = "abort" /\ rw.failed = 56)

(***************************************************************************)
(* Properties of a read written and read back, checked under SpecRound.    *)
(***************************************************************************)
\* C38: a read written with type label t, when it comes back aligned in the
\* class t, passes the scanner's type gate: the text after the last '!' of
\* its name begins with t, the record is routed to class t and no type
\* mismatch is counted.
C38_AsStated ==
    (lib.pc = "aligned" /\ scan.pc = "done") =>
        /\ StartsWithAt(SimTyp(lib.name), 1, lib.lab)
        /\ scan.ntyp_mismatch = 0
        /\ \A k \in 1..Len(scan.cls) : scan.cls[k].class = lib.lab[1]

(***************************************************************************)
(* Properties of the bases written, checked under SpecSim.                 *)
(***************************************************************************)
\* C33: every base of every sequence the simulator writes to a FASTQ file
\* is one of A, C, G, T (never N and never a zero byte), for any reference
\* window and any template drawn.
C33_AsStated ==
    simread.pc = "written" =>
        \A k \in 1..Len(simread.out[2]) : simread.out[2][k] \in Bases

====
